---- MODULE Spec2Model ----
(***************************************************************************)
(* Financial-math function library of the BWIA financial calculator:       *)
(* the rate converters, calculateSimpleInterest, calculateCompoundInterest,*)
(* solveProblem64, calculateLoan with the loan page's                      *)
(* generateAmortizationTable, calculateOrdinaryAnnuity, and the            *)
(* handleCalculate handlers of the simple-interest, compound-interest and  *)
(* annuity pages (src/BWIAFinancialCalculator2).                           *)
(*                                                                         *)
(* NUMBERS.  A JavaScript number is modelled as an exact rational n/d in   *)
(* lowest terms (d > 0) or one of Infinity, -Infinity, NaN, with the IEEE  *)
(* rules for the special values (x/0, 0/0, Inf-Inf, 0*Inf, x**0, NaN       *)
(* never equal to itself).  What is abstracted: binary rounding (the       *)
(* specification's equalities are read "within floating-point epsilon",    *)
(* which is exact equality of the rationals) and the sign of zero.  A      *)
(* value the rationals cannot hold (an irrational root or logarithm) or    *)
(* whose exponent exceeds MaxExponent is OutOfModel; a call that would     *)
(* return one is outside the bounds of the model and is not taken.         *)
(***************************************************************************)
EXTENDS Integers, Sequences, FiniteSets, TLC

VARIABLES
    pc,                \* "ready" | "returned" | "fedback": position of the caller
    fn,                \* which solver the caller invokes
    args,              \* the arguments of the call
    result,            \* outcome of the call: [error, value]
    amortizationTable, \* LoanCalculator state: the schedule (a sequence of entries)
    roundTrip,         \* outcome of the second call of the compound round trip
    error,             \* a page's error message ("" when none is shown)
    calculation,       \* outcome of the solver call inside the last handleCalculate
    escaped,           \* an exception left handleCalculate
    iterations,        \* iterations of the two loops of the last solveProblem64 call
    conversions,       \* InterestRateConverter state: the stored conversions
    calculations       \* number of handleCalculate calls on the page so far

pageVars == <<error, calculation, escaped>>
vars == <<pc, fn, args, result, amortizationTable, roundTrip, pageVars, iterations,
         conversions, calculations>>

----------------------------------------------------------------------------
(* Bounds of the model *)

\* largest |exponent| of ** that is evaluated exactly
MaxExponent == 4
\* largest numerator or denominator of a root taken by **
MaxRootBase == 16
\* loan terms are 1..MaxMonths months
MaxMonths == 3
\* largest numerator or denominator of a number the model holds
MaxInteger == 1000000000
\* largest |exponent| of ** inside solveProblem64 that is evaluated exactly
MaxScenarioExponent == 24
\* largest number of handleCalculate calls on one page
MaxCalculations == 2

----------------------------------------------------------------------------
(* JavaScript numbers *)

Num(n, d) == [n |-> n, d |-> d]

undefined == Num(0, -1)
OutOfModel == Num(0, -2)
NaN == Num(0, 0)
Infinity == Num(1, 0)
NegInfinity == Num(-1, 0)
Zero == Num(0, 1)
One == Num(1, 1)

Abs(i) == IF i < 0 THEN -i ELSE i
Sgn(i) == IF i < 0 THEN -1 ELSE IF i > 0 THEN 1 ELSE 0

RECURSIVE GCD(_, _)
GCD(a, b) == IF b = 0 THEN a ELSE CHOOSE g \in {GCD(b, r) : r \in {a % b}} : TRUE

\* the rational n/d (d # 0) in lowest terms with a positive denominator
Norm(n, d) ==
    LET g == GCD(Abs(n), Abs(d))
    IN  Num(Sgn(d) * (n \div g), Abs(d) \div g)

Int2Num(i) == Num(i, 1)

\* Op applied to its operands' values, each operand evaluated once
Strict1(Op(_), x) == CHOOSE r \in {Op(a) : a \in {x}} : TRUE
\* const name = x; followed by the statements Rest(name)
With(x, Rest(_)) == CHOOSE r \in {Rest(name) : name \in {x}} : TRUE
Strict2(Op(_, _), x, y) == CHOOSE r \in {Op(a, b) : a \in {x}, b \in {y}} : TRUE
Strict4(Op(_, _, _, _), w, x, y, z) ==
    CHOOSE r \in {Op(a, b, c, d) : a \in {w}, b \in {x}, c \in {y}, d \in {z}} : TRUE

\* the product a * b stays within MaxInteger
Fits(a, b) == a = 0 \/ b = 0 \/ Abs(a) <= MaxInteger \div Abs(b)

\* n/d in lowest terms when the model holds it
Checked(n, d) ==
    LET x == Norm(n, d)
    IN  IF Abs(x.n) > MaxInteger \/ x.d > MaxInteger THEN OutOfModel ELSE x

\* a/b < c/d for b, d > 0, by comparing the continued fractions
RECURSIVE RatLt(_, _, _, _)
RatLt(a, b, c, d) ==
    IF a \div b # c \div d THEN a \div b < c \div d
    ELSE IF c % d = 0 THEN FALSE
    ELSE IF a % b = 0 THEN TRUE
    ELSE \E p \in {c % d}, q \in {a % b} : RatLt(d, p, b, q)

IsFinite(x) == x.d > 0
IsInf(x) == x.d = 0 /\ x.n # 0
\* NaN, and undefined once converted by an arithmetic operator (ToNumber)
IsNaN(x) == x = NaN \/ x = undefined
IsZero(x) == x = Zero

\* JavaScript truthiness of a number | undefined: 0, NaN and undefined are falsy
Truthy(x) == x # undefined /\ x # NaN /\ x # Zero

\* x === y on numbers
JsEq(x, y) == ~IsNaN(x) /\ ~IsNaN(y) /\ x # OutOfModel /\ x = y

\* x < y, false when either is NaN
Lt(x, y) ==
    /\ ~IsNaN(x) /\ ~IsNaN(y)
    /\ x # OutOfModel /\ y # OutOfModel
    /\ x # y
    /\ IF IsInf(x) THEN x = NegInfinity
       ELSE IF IsInf(y) THEN y = Infinity
       ELSE RatLt(x.n, x.d, y.n, y.d)

Le(x, y) == JsEq(x, y) \/ Lt(x, y)

\* -x
NegValues(x) ==
    IF x = OutOfModel THEN OutOfModel
    ELSE IF IsNaN(x) THEN NaN
    ELSE Num(-x.n, x.d)

Neg(x) == Strict1(NegValues, x)

\* x + y
AddValues(x, y) ==
    IF x = OutOfModel \/ y = OutOfModel THEN OutOfModel
    ELSE IF IsNaN(x) \/ IsNaN(y) THEN NaN
    ELSE IF IsInf(x) /\ IsInf(y) THEN (IF x = y THEN x ELSE NaN)
    ELSE IF IsInf(x) THEN x
    ELSE IF IsInf(y) THEN y
    ELSE LET g == GCD(x.d, y.d)
         IN  IF /\ Fits(x.n, y.d \div g) /\ Fits(y.n, x.d \div g)
                /\ Fits(x.d \div g, y.d)
             THEN Checked(x.n * (y.d \div g) + y.n * (x.d \div g),
                          (x.d \div g) * y.d)
             ELSE OutOfModel

Add(x, y) == Strict2(AddValues, x, y)

\* x - y
Sub(x, y) == Add(x, Neg(y))

\* x * y
MulValues(x, y) ==
    IF x = OutOfModel \/ y = OutOfModel THEN OutOfModel
    ELSE IF IsNaN(x) \/ IsNaN(y) THEN NaN
    ELSE IF IsInf(x) \/ IsInf(y)
         THEN (IF IsZero(x) \/ IsZero(y) THEN NaN ELSE Num(Sgn(x.n) * Sgn(y.n), 0))
    ELSE LET g == GCD(Abs(x.n), y.d)
             h == GCD(Abs(y.n), x.d)
         IN  IF Fits(x.n \div g, y.n \div h) /\ Fits(x.d \div h, y.d \div g)
             THEN Norm((x.n \div g) * (y.n \div h), (x.d \div h) * (y.d \div g))
             ELSE OutOfModel

Mul(x, y) == Strict2(MulValues, x, y)

\* x / y; a zero divisor is +0
DivValues(x, y) ==
    IF x = OutOfModel \/ y = OutOfModel THEN OutOfModel
    ELSE IF IsNaN(x) \/ IsNaN(y) THEN NaN
    ELSE IF IsInf(x)
         THEN (IF IsInf(y) THEN NaN
               ELSE Num(Sgn(x.n) * (IF y.n < 0 THEN -1 ELSE 1), 0))
    ELSE IF IsInf(y) THEN Zero
    ELSE IF IsZero(y) THEN (IF IsZero(x) THEN NaN ELSE Num(Sgn(x.n), 0))
    ELSE LET g == GCD(Abs(x.n), Abs(y.n))
             h == GCD(x.d, y.d)
         IN  IF Fits(x.n \div g, y.d \div h) /\ Fits(x.d \div h, y.n \div g)
             THEN Norm((x.n \div g) * (y.d \div h), (x.d \div h) * (y.n \div g))
             ELSE OutOfModel

Div(x, y) == Strict2(DivValues, x, y)

\* b * p for naturals; MaxInteger + 1 stands for every larger number
SatMul(b, p) == IF p > MaxInteger \/ ~Fits(b, p) THEN MaxInteger + 1 ELSE b * p
SatSquare(p) == SatMul(p, p)

\* b^k for naturals b, k, by repeated squaring; MaxInteger + 1 stands for
\* every larger power
RECURSIVE IPow(_, _)
IPow(b, k) ==
    IF k = 0 THEN 1
    ELSE IF k % 2 = 0 THEN Strict1(SatSquare, IPow(b, k \div 2))
    ELSE Strict2(SatMul, b, IPow(b, k - 1))

\* the k-th root of the natural number m: m itself for k = 1, and for k > 1
\* the root when it is a natural number <= MaxRootBase
HasIRoot(m, k) == k = 1 \/ \E c \in 0..MaxRootBase : IPow(c, k) = m
IRoot(m, k) == IF k = 1 THEN m ELSE CHOOSE c \in 0..MaxRootBase : IPow(c, k) = m

\* x ** (a/b) for a finite x > 0 or x = 0, a # 0, b >= 1, with exponents up
\* to maxExp
PowPos(x, a, b, maxExp) ==
    IF Abs(a) > maxExp \/ b > maxExp THEN OutOfModel
    ELSE IF IsZero(x) THEN (IF a > 0 THEN Zero ELSE Infinity)
    ELSE IF ~(HasIRoot(x.n, b) /\ HasIRoot(x.d, b)) THEN OutOfModel
    ELSE LET rn == IRoot(x.n, b)
             rd == IRoot(x.d, b)
         IN  IF IPow(rn, Abs(a)) > MaxInteger \/ IPow(rd, Abs(a)) > MaxInteger
             THEN OutOfModel
             ELSE IF a > 0 THEN Norm(IPow(rn, a), IPow(rd, a))
             ELSE Norm(IPow(rd, -a), IPow(rn, -a))

\* x ** e (Number::exponentiate), exact for exponents up to maxExp
PowUpTo(x, e, maxExp) ==
    IF x = OutOfModel \/ e = OutOfModel THEN OutOfModel
    ELSE IF IsNaN(e) THEN NaN
    ELSE IF IsZero(e) THEN One
    ELSE IF IsNaN(x) THEN NaN
    ELSE IF IsInf(e)
         THEN (IF IsInf(x) \/ Abs(x.n) > x.d
                   THEN (IF e = Infinity THEN Infinity ELSE Zero)
               ELSE IF Abs(x.n) = x.d THEN NaN
               ELSE (IF e = Infinity THEN Zero ELSE Infinity))
    ELSE IF IsInf(x)
         THEN (IF e.n < 0 THEN Zero
               ELSE IF x = NegInfinity /\ e.d = 1 /\ e.n % 2 = 1 THEN NegInfinity
               ELSE Infinity)
    ELSE IF x.n >= 0 THEN PowPos(x, e.n, e.d, maxExp)
    ELSE IF e.d # 1 THEN NaN
    ELSE LET m == PowPos(Neg(x), e.n, 1, maxExp)
         IN  IF e.n % 2 = 1 THEN Neg(m) ELSE m

\* x ** e in the solvers and converters
PowValues(x, e) == PowUpTo(x, e, MaxExponent)
Pow(x, e) == Strict2(PowValues, x, e)

\* x ** e in solveProblem64
ScenarioPowValues(x, e) == PowUpTo(x, e, MaxScenarioExponent)
ScenarioPow(x, e) == Strict2(ScenarioPowValues, x, e)

\* Math.max(x, y)
MathMaxValues(x, y) ==
    IF x = OutOfModel \/ y = OutOfModel THEN OutOfModel
    ELSE IF IsNaN(x) \/ IsNaN(y) THEN NaN
    ELSE IF Lt(x, y) THEN y ELSE x

MathMax(x, y) == Strict2(MathMaxValues, x, y)

\* the sign class of Math.log(x): NaN below 0, -Infinity at 0, 0 at 1,
\* Infinity at Infinity, otherwise a finite number of the sign shown
LogClassValues(x) ==
    IF x = OutOfModel THEN OutOfModel
    ELSE IF IsNaN(x) \/ x.n < 0 THEN NaN
    ELSE IF IsZero(x) THEN NegInfinity
    ELSE IF x = Infinity THEN Infinity
    ELSE IF x = One THEN Zero
    ELSE IF x.n < x.d THEN Int2Num(-1) ELSE One

LogClass(x) == Strict1(LogClassValues, x)

\* Math.log(x) / (m * Math.log(b)).  A single logarithm is irrational, so
\* the quotient is evaluated as a whole: when both logarithms are finite
\* and non-zero it is k/m for the integer k with b**k = x; otherwise only
\* the class of each logarithm (NaN, +-Infinity, 0, sign) decides the result.
LogQuot(x, m, b) ==
    LET lx == LogClass(x)
        lb == LogClass(b)
        ordinary(l) == IsFinite(l) /\ ~IsZero(l)
    IN  IF ordinary(lx) /\ ordinary(lb)
        THEN (IF \E k \in (-MaxExponent)..MaxExponent : Pow(b, Int2Num(k)) = x
              THEN Div(Int2Num(CHOOSE k \in (-MaxExponent)..MaxExponent :
                                   Pow(b, Int2Num(k)) = x), m)
              ELSE OutOfModel)
        ELSE Div(lx, Mul(m, lb))

\* Math.log(x): its special values; the logarithm of any other number is
\* irrational and is not held by the number model
MathLogValues(x) ==
    LET l == LogClass(x)
    IN  IF l = OutOfModel \/ (IsFinite(l) /\ ~IsZero(l)) THEN OutOfModel ELSE l

MathLog(x) == Strict1(MathLogValues, x)

\* Math.ceil(x)
MathCeilValues(x) ==
    IF x = OutOfModel THEN OutOfModel
    ELSE IF IsNaN(x) THEN NaN
    ELSE IF IsInf(x) THEN x
    ELSE Int2Num(-((-x.n) \div x.d))

MathCeil(x) == Strict1(MathCeilValues, x)

\* a default parameter value (param = dflt in a parameter list)
Default(x, dflt) == IF x = undefined THEN dflt ELSE x

Hundred == Int2Num(100)
Twelve == Int2Num(12)

----------------------------------------------------------------------------
(* Outcomes of a call *)

NoValue == [none |-> Zero]
Return(v) == [error |-> "", value |-> v]
Throw(msg) == [error |-> msg, value |-> NoValue]
NoCall == [error |-> "not called", value |-> NoValue]

InsufficientParameters == "Insufficient parameters for calculation"
InsufficientAnnuityParameters == "Insufficient parameters for annuity calculation"

\* every field of a returned record is a value the number model holds
InModel(o) == \A f \in DOMAIN o.value : o.value[f] # OutOfModel

----------------------------------------------------------------------------
(* Rate converters: finance_utilities_Version1.ts 12-105 *)

\* a variant that rejects a zero time period
convertFromSimple_rejectsZeroTime(simpleRate, timePeriod, compoundingFreq0) ==
    LET compoundingFreq == Default(compoundingFreq0, One)
        r == Div(simpleRate, Hundred)
        t == timePeriod
        m == compoundingFreq
        growth == Add(One, Mul(r, t))
        effectiveAnnual == Sub(Pow(growth, Div(One, t)), One)
        nominal == Mul(m, Sub(Pow(growth, Div(One, Mul(m, t))), One))
        effectivePeriodic == Sub(Pow(growth, Div(One, Mul(m, t))), One)
        forceOfInterest == Div(MathLog(growth), t)
    IN  IF IsZero(t) THEN Throw("InvalidArgument")
        ELSE Return([simple |-> simpleRate,
                     effectiveAnnual |-> Mul(effectiveAnnual, Hundred),
                     nominal |-> Mul(nominal, Hundred),
                     effectivePeriodic |-> Mul(effectivePeriodic, Hundred),
                     forceOfInterest |-> Mul(forceOfInterest, Hundred)])

\* lines 12-40
convertFromSimple(simpleRate, timePeriod, compoundingFreq0) ==
    LET compoundingFreq == Default(compoundingFreq0, One)
        r == Div(simpleRate, Hundred)
        t == timePeriod
        m == compoundingFreq
        growth == Add(One, Mul(r, t))
        effectiveAnnual == Sub(Pow(growth, Div(One, t)), One)
        nominal == Mul(m, Sub(Pow(growth, Div(One, Mul(m, t))), One))
        effectivePeriodic == Sub(Pow(growth, Div(One, Mul(m, t))), One)
        forceOfInterest == Div(MathLog(growth), t)
    IN  Return([simple |-> simpleRate,
                effectiveAnnual |-> Mul(effectiveAnnual, Hundred),
                nominal |-> Mul(nominal, Hundred),
                effectivePeriodic |-> Mul(effectivePeriodic, Hundred),
                forceOfInterest |-> Mul(forceOfInterest, Hundred)])

\* a variant whose simple rate is the growth over the whole period
convertFromEffectiveAnnual_noPerYear(effectiveRate, compoundingFreq0, timePeriod0) ==
    LET compoundingFreq == Default(compoundingFreq0, One)
        timePeriod == Default(timePeriod0, One)
        r == Div(effectiveRate, Hundred)
        m == compoundingFreq
        t == timePeriod
        simple == Sub(Pow(Add(One, r), t), One)
        nominal == Mul(m, Sub(Pow(Add(One, r), Div(One, m)), One))
        effectivePeriodic == Sub(Pow(Add(One, r), Div(One, m)), One)
        forceOfInterest == MathLog(Add(One, r))
    IN  Return([simple |-> Mul(simple, Hundred),
                effectiveAnnual |-> effectiveRate,
                nominal |-> Mul(nominal, Hundred),
                effectivePeriodic |-> Mul(effectivePeriodic, Hundred),
                forceOfInterest |-> Mul(forceOfInterest, Hundred)])

\* lines 43-71
convertFromEffectiveAnnual(effectiveRate, compoundingFreq0, timePeriod0) ==
    LET compoundingFreq == Default(compoundingFreq0, One)
        timePeriod == Default(timePeriod0, One)
        r == Div(effectiveRate, Hundred)
        m == compoundingFreq
        t == timePeriod
        simple == Div(Sub(Pow(Add(One, r), t), One), t)
        nominal == Mul(m, Sub(Pow(Add(One, r), Div(One, m)), One))
        effectivePeriodic == Sub(Pow(Add(One, r), Div(One, m)), One)
        forceOfInterest == MathLog(Add(One, r))
    IN  Return([simple |-> Mul(simple, Hundred),
                effectiveAnnual |-> effectiveRate,
                nominal |-> Mul(nominal, Hundred),
                effectivePeriodic |-> Mul(effectivePeriodic, Hundred),
                forceOfInterest |-> Mul(forceOfInterest, Hundred)])

\* lines 74-105
convertFromNominal(nominalRate, compoundingFreq, targetCompoundingFreq0) ==
    LET targetCompoundingFreq == Default(targetCompoundingFreq0, One)
        r == Div(nominalRate, Hundred)
        m == compoundingFreq
        m2 == targetCompoundingFreq
        effectiveAnnual == Sub(Pow(Add(One, Div(r, m)), m), One)
        simple == effectiveAnnual
        targetNominal == Mul(m2, Sub(Pow(Add(One, Div(r, m)), Div(m, m2)), One))
        effectivePeriodic == Sub(Pow(Add(One, Div(r, m)), Div(m, m2)), One)
        forceOfInterest == Mul(MathLog(Add(One, Div(r, m))), m)
    IN  Return([simple |-> Mul(simple, Hundred),
                effectiveAnnual |-> Mul(effectiveAnnual, Hundred),
                nominal |-> Mul(targetNominal, Hundred),
                effectivePeriodic |-> Mul(effectivePeriodic, Hundred),
                forceOfInterest |-> Mul(forceOfInterest, Hundred)])

----------------------------------------------------------------------------
(* Simple interest: finance_utilities_Version1.ts 116-170 *)

\* a variant that takes the rate as a fraction instead of a percentage
SimpleFromPrincipalRateTime_noPercent(principal, rate, time) ==
    LET interest == Mul(Mul(principal, rate), time)
    IN  Return([principal |-> principal, rate |-> rate, time |-> time,
                interest |-> interest,
                futureValue |-> Add(principal, interest)])

\* lines 122-131: principal, rate, time given
SimpleFromPrincipalRateTime(principal, rate, time) ==
    LET interest == Mul(Mul(principal, Div(rate, Hundred)), time)
    IN  Return([principal |-> principal, rate |-> rate, time |-> time,
                interest |-> interest,
                futureValue |-> Add(principal, interest)])

\* lines 133-143: futureValue, rate, time given
SimpleFromFutureValueRateTime(futureValue, rate, time) ==
    LET calculatedPrincipal ==
            Div(futureValue, Add(One, Mul(Div(rate, Hundred), time)))
        interest == Sub(futureValue, calculatedPrincipal)
    IN  Return([principal |-> calculatedPrincipal, rate |-> rate,
                time |-> time, interest |-> interest,
                futureValue |-> futureValue])

\* lines 145-155: principal, futureValue, time given
SimpleFromPrincipalFutureValueTime(principal, futureValue, time) ==
    LET calculatedRate ==
            Mul(Div(Sub(futureValue, principal), Mul(principal, time)), Hundred)
        interest == Sub(futureValue, principal)
    IN  Return([principal |-> principal, rate |-> calculatedRate,
                time |-> time, interest |-> interest,
                futureValue |-> futureValue])

\* lines 157-167: principal, rate, futureValue given
SimpleFromPrincipalRateFutureValue(principal, rate, futureValue) ==
    LET calculatedTime ==
            Div(Sub(futureValue, principal), Mul(principal, Div(rate, Hundred)))
        interest == Sub(futureValue, principal)
    IN  Return([principal |-> principal, rate |-> rate,
                time |-> calculatedTime, interest |-> interest,
                futureValue |-> futureValue])

\* a variant whose cases test that an argument was supplied, so that 0 counts
calculateSimpleInterest_zeroCounts(principal, rate, time, futureValue) ==
    LET given(x) == x # undefined
    IN  IF given(principal) /\ given(rate) /\ given(time)
        THEN SimpleFromPrincipalRateTime(principal, rate, time)
        ELSE IF given(futureValue) /\ given(rate) /\ given(time)
        THEN SimpleFromFutureValueRateTime(futureValue, rate, time)
        ELSE IF given(principal) /\ given(futureValue) /\ given(time)
        THEN SimpleFromPrincipalFutureValueTime(principal, futureValue, time)
        ELSE IF given(principal) /\ given(rate) /\ given(futureValue)
        THEN SimpleFromPrincipalRateFutureValue(principal, rate, futureValue)
        ELSE Throw(InsufficientParameters)

\* a variant that tests the futureValue case before the principal case
calculateSimpleInterest_fvFirst(principal, rate, time, futureValue) ==
    IF Truthy(futureValue) /\ Truthy(rate) /\ Truthy(time)
    THEN SimpleFromFutureValueRateTime(futureValue, rate, time)
    ELSE IF Truthy(principal) /\ Truthy(rate) /\ Truthy(time)
    THEN SimpleFromPrincipalRateTime(principal, rate, time)
    ELSE IF Truthy(principal) /\ Truthy(futureValue) /\ Truthy(time)
    THEN SimpleFromPrincipalFutureValueTime(principal, futureValue, time)
    ELSE IF Truthy(principal) /\ Truthy(rate) /\ Truthy(futureValue)
    THEN SimpleFromPrincipalRateFutureValue(principal, rate, futureValue)
    ELSE Throw(InsufficientParameters)

\* a variant without the last case (principal, rate, futureValue)
calculateSimpleInterest_noTimeCase(principal, rate, time, futureValue) ==
    IF Truthy(principal) /\ Truthy(rate) /\ Truthy(time)
    THEN SimpleFromPrincipalRateTime(principal, rate, time)
    ELSE IF Truthy(futureValue) /\ Truthy(rate) /\ Truthy(time)
    THEN SimpleFromFutureValueRateTime(futureValue, rate, time)
    ELSE IF Truthy(principal) /\ Truthy(futureValue) /\ Truthy(time)
    THEN SimpleFromPrincipalFutureValueTime(principal, futureValue, time)
    ELSE Throw(InsufficientParameters)

calculateSimpleInterest(principal, rate, time, futureValue) ==
    IF Truthy(principal) /\ Truthy(rate) /\ Truthy(time)
    THEN SimpleFromPrincipalRateTime(principal, rate, time)
    ELSE IF Truthy(futureValue) /\ Truthy(rate) /\ Truthy(time)
    THEN SimpleFromFutureValueRateTime(futureValue, rate, time)
    ELSE IF Truthy(principal) /\ Truthy(futureValue) /\ Truthy(time)
    THEN SimpleFromPrincipalFutureValueTime(principal, futureValue, time)
    ELSE IF Truthy(principal) /\ Truthy(rate) /\ Truthy(futureValue)
    THEN SimpleFromPrincipalRateFutureValue(principal, rate, futureValue)
    ELSE Throw(InsufficientParameters)

----------------------------------------------------------------------------
(* Compound interest: finance_utilities_Version1.ts 182-245 *)

\* (1 + r / compoundingFreq) ** (compoundingFreq * time), r = rate / 100
GrowthFactor(rate, time, compoundingFreq) ==
    Pow(Add(One, Div(Div(rate, Hundred), compoundingFreq)),
        Mul(compoundingFreq, time))

\* lines 189-201: principal, rate, time given
CompoundFromPrincipalRateTime(principal, rate, time, compoundingFreq) ==
    LET calculatedFV == Mul(principal, GrowthFactor(rate, time, compoundingFreq))
        interest == Sub(calculatedFV, principal)
    IN  Return([principal |-> principal, rate |-> rate, time |-> time,
                compoundingFreq |-> compoundingFreq, interest |-> interest,
                futureValue |-> calculatedFV])

\* a variant that discounts at the annual rate, ignoring the frequency
CompoundFromFutureValueRateTime_annual(futureValue, rate, time, compoundingFreq) ==
    LET calculatedPrincipal == Div(futureValue, GrowthFactor(rate, time, One))
        interest == Sub(futureValue, calculatedPrincipal)
    IN  Return([principal |-> calculatedPrincipal, rate |-> rate, time |-> time,
                compoundingFreq |-> compoundingFreq, interest |-> interest,
                futureValue |-> futureValue])

\* lines 203-215: futureValue, rate, time given
CompoundFromFutureValueRateTime(futureValue, rate, time, compoundingFreq) ==
    LET calculatedPrincipal ==
            Div(futureValue, GrowthFactor(rate, time, compoundingFreq))
        interest == Sub(futureValue, calculatedPrincipal)
    IN  Return([principal |-> calculatedPrincipal, rate |-> rate, time |-> time,
                compoundingFreq |-> compoundingFreq, interest |-> interest,
                futureValue |-> futureValue])

\* lines 217-228: principal, futureValue, time given
CompoundFromPrincipalFutureValueTime(principal, futureValue, time, compoundingFreq) ==
    LET calculatedRate ==
            Mul(Mul(compoundingFreq,
                    Sub(Pow(Div(futureValue, principal),
                            Div(One, Mul(compoundingFreq, time))),
                        One)),
                Hundred)
        interest == Sub(futureValue, principal)
    IN  Return([principal |-> principal, rate |-> calculatedRate, time |-> time,
                compoundingFreq |-> compoundingFreq, interest |-> interest,
                futureValue |-> futureValue])

\* lines 230-242: principal, rate, futureValue given
CompoundFromPrincipalRateFutureValue(principal, rate, futureValue, compoundingFreq) ==
    LET r == Div(rate, Hundred)
        calculatedTime ==
            LogQuot(Div(futureValue, principal), compoundingFreq,
                    Add(One, Div(r, compoundingFreq)))
        interest == Sub(futureValue, principal)
    IN  Return([principal |-> principal, rate |-> rate, time |-> calculatedTime,
                compoundingFreq |-> compoundingFreq, interest |-> interest,
                futureValue |-> futureValue])

\* a variant in which a supplied frequency stands in for a missing time
calculateCompoundInterest_freqCounts(principal, rate, time, compoundingFreq0, futureValue) ==
    LET compoundingFreq == Default(compoundingFreq0, One)
        time1 == IF Truthy(time) THEN time ELSE compoundingFreq0
    IN  IF Truthy(principal) /\ Truthy(rate) /\ Truthy(time1)
        THEN CompoundFromPrincipalRateTime(principal, rate, time1, compoundingFreq)
        ELSE IF Truthy(futureValue) /\ Truthy(rate) /\ Truthy(time1)
        THEN CompoundFromFutureValueRateTime(futureValue, rate, time1, compoundingFreq)
        ELSE IF Truthy(principal) /\ Truthy(futureValue) /\ Truthy(time1)
        THEN CompoundFromPrincipalFutureValueTime(principal, futureValue, time1,
                                                  compoundingFreq)
        ELSE IF Truthy(principal) /\ Truthy(rate) /\ Truthy(futureValue)
        THEN CompoundFromPrincipalRateFutureValue(principal, rate, futureValue,
                                                  compoundingFreq)
        ELSE Throw(InsufficientParameters)

calculateCompoundInterest(principal, rate, time, compoundingFreq0, futureValue) ==
    LET compoundingFreq == Default(compoundingFreq0, One)
    IN  IF Truthy(principal) /\ Truthy(rate) /\ Truthy(time)
        THEN CompoundFromPrincipalRateTime(principal, rate, time, compoundingFreq)
        ELSE IF Truthy(futureValue) /\ Truthy(rate) /\ Truthy(time)
        THEN CompoundFromFutureValueRateTime(futureValue, rate, time, compoundingFreq)
        ELSE IF Truthy(principal) /\ Truthy(futureValue) /\ Truthy(time)
        THEN CompoundFromPrincipalFutureValueTime(principal, futureValue, time,
                                                  compoundingFreq)
        ELSE IF Truthy(principal) /\ Truthy(rate) /\ Truthy(futureValue)
        THEN CompoundFromPrincipalRateFutureValue(principal, rate, futureValue,
                                                  compoundingFreq)
        ELSE Throw(InsufficientParameters)

----------------------------------------------------------------------------
(* Problem 6.4: finance_utilities_Version1.ts 257-311 *)

\* the number of iterations of for (month = 1; month <= limit; month++)
LoopCount(limit) ==
    IF IsNaN(limit) \/ limit = NegInfinity \/ limit.n < limit.d THEN 0
    ELSE limit.n \div limit.d

\* a loop of more than MaxScenarioExponent + 1 months raises to powers the
\* model does not evaluate: its sum is outside the number model
LoopInModel(limit) ==
    /\ limit # OutOfModel /\ limit # Infinity
    /\ LoopCount(limit) <= MaxScenarioExponent + 1

\* the term of a level withdrawal: the yearly increase of lines 282-283 is
\* left out
WithdrawalTerm_level(month, firstWithdrawal, inflationRate, monthlyEffectiveRate) ==
    Div(firstWithdrawal,
        ScenarioPow(Add(One, monthlyEffectiveRate), Int2Num(month)))

\* lines 281-284: what iteration `month` adds to pvWithdrawals
WithdrawalTerm(month, firstWithdrawal, inflationRate, monthlyEffectiveRate) ==
    With(MathCeil(Div(Int2Num(month), Twelve)),
      LAMBDA yearNumber :
    With(Mul(firstWithdrawal,
             ScenarioPow(Add(One, Div(inflationRate, Hundred)),
                         Sub(yearNumber, One))),
      LAMBDA monthlyWithdrawal :
    Div(monthlyWithdrawal,
        ScenarioPow(Add(One, monthlyEffectiveRate), Int2Num(month)))))

\* lines 280-285: pvWithdrawals[month] is the variable after the iterations
\* 1..month of the loop
WithdrawalLoopValues(limit, firstWithdrawal, inflationRate, monthlyEffectiveRate) ==
    LET pvWithdrawals[month \in 0..LoopCount(limit)] ==
            IF month = 0 THEN Zero
            ELSE Add(pvWithdrawals[month - 1],
                     WithdrawalTerm(month, firstWithdrawal, inflationRate,
                                    monthlyEffectiveRate))
    IN  IF LoopInModel(limit) THEN pvWithdrawals[LoopCount(limit)] ELSE OutOfModel

WithdrawalLoop(limit, firstWithdrawal, inflationRate, monthlyEffectiveRate) == Strict4(WithdrawalLoopValues, limit, firstWithdrawal, inflationRate, monthlyEffectiveRate)

\* the term of a level annuity: the inflation factor of lines 295-296 is
\* left out
AnnuityFactorTerm_noInflation(month, investmentYears, inflationRate, monthlyEffectiveRate) ==
    ScenarioPow(Add(One, monthlyEffectiveRate),
                Sub(Mul(investmentYears, Twelve), Int2Num(month)))

\* lines 295-298: what iteration `month` adds to annuityFactor
AnnuityFactorTerm(month, investmentYears, inflationRate, monthlyEffectiveRate) ==
    With(MathCeil(Div(Int2Num(month), Twelve)),
      LAMBDA yearNumber :
    With(ScenarioPow(Add(One, Div(inflationRate, Hundred)), Sub(yearNumber, One)),
      LAMBDA inflationFactor :
    Mul(inflationFactor,
        ScenarioPow(Add(One, monthlyEffectiveRate),
                    Sub(Mul(investmentYears, Twelve), Int2Num(month))))))

\* lines 294-299: annuityFactor[month] is the variable after the iterations
\* 1..month of the loop
AnnuityFactorLoopValues(limit, investmentYears, inflationRate, monthlyEffectiveRate) ==
    LET annuityFactor[month \in 0..LoopCount(limit)] ==
            IF month = 0 THEN Zero
            ELSE Add(annuityFactor[month - 1],
                     AnnuityFactorTerm(month, investmentYears, inflationRate,
                                       monthlyEffectiveRate))
    IN  IF LoopInModel(limit) THEN annuityFactor[LoopCount(limit)] ELSE OutOfModel

AnnuityFactorLoop(limit, investmentYears, inflationRate, monthlyEffectiveRate) == Strict4(AnnuityFactorLoopValues, limit, investmentYears, inflationRate, monthlyEffectiveRate)

\* line 281 with the default of line 263 applied: the number of iterations
\* of the withdrawal loop, were it the contribution loop's default
WithdrawalMonths_investmentDefault(withdrawalYears0) ==
    LoopCount(Mul(Default(withdrawalYears0, Int2Num(40)), Twelve))

\* line 281 with the default of line 263 applied: the number of iterations
\* of the withdrawal loop
WithdrawalMonths(withdrawalYears0) ==
    LoopCount(Mul(Default(withdrawalYears0, Int2Num(20)), Twelve))

\* line 295 with the default of line 262 applied: the number of iterations
\* of the contribution loop
ContributionMonths(investmentYears0) ==
    LoopCount(Mul(Default(investmentYears0, Int2Num(40)), Twelve))

NoIterations == [withdrawals |-> 0, contributions |-> 0]

\* lines 257-311.  Lines 277-278 (monthlyInflationRate, realMonthlyRate)
\* compute two constants that nothing reads.
solveProblem64(nominalRate0, initialInvestment0, inflationRate0, firstWithdrawalValue0, investmentYears0, withdrawalYears0) ==
    LET nominalRate == Default(nominalRate0, Int2Num(12))
        initialInvestment == Default(initialInvestment0, Int2Num(10000))
        inflationRate == Default(inflationRate0, Int2Num(8))
        firstWithdrawalValue == Default(firstWithdrawalValue0, Int2Num(5000))
        investmentYears == Default(investmentYears0, Int2Num(40))
        withdrawalYears == Default(withdrawalYears0, Int2Num(20))
    IN  With(Div(Div(nominalRate, Hundred), Twelve),
          LAMBDA monthlyNominalRate :
        With(Sub(ScenarioPow(Add(One, monthlyNominalRate), Twelve), One),
          LAMBDA effectiveAnnualRate :
        With(Sub(ScenarioPow(Add(One, effectiveAnnualRate), Div(One, Twelve)), One),
          LAMBDA monthlyEffectiveRate :
        With(Mul(initialInvestment,
                 ScenarioPow(Add(One, effectiveAnnualRate), investmentYears)),
          LAMBDA futureValueInitial :
        With(Mul(firstWithdrawalValue,
                 ScenarioPow(Add(One, Div(inflationRate, Hundred)),
                             investmentYears)),
          LAMBDA firstWithdrawal :
        With(WithdrawalLoop(Mul(withdrawalYears, Twelve), firstWithdrawal,
                            inflationRate, monthlyEffectiveRate),
          LAMBDA pvWithdrawals :
        With(pvWithdrawals,
          LAMBDA targetFund :
        With(Sub(targetFund, futureValueInitial),
          LAMBDA requiredFromPayments :
        With(AnnuityFactorLoop(Mul(investmentYears, Twelve), investmentYears,
                               inflationRate, monthlyEffectiveRate),
          LAMBDA annuityFactor :
        With(Div(requiredFromPayments, annuityFactor),
          LAMBDA firstPayment :
        Return([firstPayment |-> firstPayment,
                effectiveAnnualRate |-> Mul(effectiveAnnualRate, Hundred),
                monthlyEffectiveRate |-> Mul(monthlyEffectiveRate, Hundred),
                futureValueInitial |-> futureValueInitial,
                targetFund |-> targetFund,
                firstWithdrawal |-> firstWithdrawal])))))))))))

----------------------------------------------------------------------------
(* Loans: finance_utilities_Version1.ts 323-346 and the loan page,        *)
(* compound_interest_calc_Version2.js 333-367                              *)

calculateLoan(loanAmount, annualRate, termYears) ==
    LET monthlyRate == Div(Div(annualRate, Hundred), Twelve)
        termMonths == Mul(termYears, Twelve)
        monthlyPayment ==
            Div(Mul(loanAmount,
                    Mul(monthlyRate, Pow(Add(One, monthlyRate), termMonths))),
                Sub(Pow(Add(One, monthlyRate), termMonths), One))
        totalPayments == Mul(monthlyPayment, termMonths)
        totalInterest == Sub(totalPayments, loanAmount)
    IN  Return([loanAmount |-> loanAmount, interestRate |-> annualRate,
                termMonths |-> termMonths, monthlyPayment |-> monthlyPayment,
                totalInterest |-> totalInterest,
                totalPayments |-> totalPayments])

\* the for loop of generateAmortizationTable from `month` on
RECURSIVE AmortizationLoop(_, _, _, _, _, _)
AmortizationLoop(month, totalPayments, monthlyRate, monthlyPayment, remainingBalance, table) ==
    IF ~Le(Int2Num(month), totalPayments) THEN table
    ELSE LET interestPayment == Mul(remainingBalance, monthlyRate)
             principalPayment == Sub(monthlyPayment, interestPayment)
             balance == MathMax(Zero, Sub(remainingBalance, principalPayment))
         IN  AmortizationLoop(month + 1, totalPayments, monthlyRate,
                 monthlyPayment, balance,
                 Append(table, [payment |-> Int2Num(month),
                                principalPayment |-> principalPayment,
                                interestPayment |-> interestPayment,
                                remainingBalance |-> balance]))

\* the table passed to setAmortizationTable
generateAmortizationTable(principal, annualRate, years, monthlyPayment) ==
    LET monthlyRate == Div(Div(annualRate, Hundred), Twelve)
        totalPayments == Mul(years, Twelve)
    IN  AmortizationLoop(1, totalPayments, monthlyRate, monthlyPayment,
                         principal, <<>>)

----------------------------------------------------------------------------
(* Ordinary annuity: finance_utilities_Version1.ts 357-404 *)

\* x || y
JsOr(x, y) == IF Truthy(x) THEN x ELSE y

\* lines 367-377: payment given
AnnuityFromPayment(payment, r, n) ==
    LET pv == Div(Mul(payment, Sub(One, Pow(Add(One, r), Neg(n)))), r)
        fv == Mul(payment, Div(Sub(Pow(Add(One, r), n), One), r))
    IN  Return([payment |-> payment, presentValue |-> pv, futureValue |-> fv,
                totalPayments |-> Mul(payment, n),
                totalInterest |-> Sub(fv, Mul(payment, n))])

\* lines 379-389: presentValue given
AnnuityFromPresentValue(presentValue, r, n) ==
    LET pmt == Div(Mul(presentValue, r), Sub(One, Pow(Add(One, r), Neg(n))))
        fv == Mul(pmt, Div(Sub(Pow(Add(One, r), n), One), r))
    IN  Return([payment |-> pmt, presentValue |-> presentValue,
                futureValue |-> fv, totalPayments |-> Mul(pmt, n),
                totalInterest |-> Sub(fv, Mul(pmt, n))])

\* lines 391-401: futureValue given
AnnuityFromFutureValue(futureValue, r, n) ==
    LET pmt == Div(Mul(futureValue, r), Sub(Pow(Add(One, r), n), One))
        pv == Div(Mul(pmt, Sub(One, Pow(Add(One, r), Neg(n)))), r)
    IN  Return([payment |-> pmt, presentValue |-> pv,
                futureValue |-> futureValue, totalPayments |-> Mul(pmt, n),
                totalInterest |-> Sub(futureValue, Mul(pmt, n))])

\* a variant whose cases test that rate was supplied, not that it is truthy
calculateOrdinaryAnnuity_rateSupplied(payment, rate, periods, presentValue, futureValue) ==
    LET r == Div(JsOr(rate, Zero), Hundred)
        n == JsOr(periods, Zero)
    IN  IF Truthy(payment) /\ rate # undefined /\ Truthy(periods)
        THEN AnnuityFromPayment(payment, r, n)
        ELSE IF Truthy(presentValue) /\ rate # undefined /\ Truthy(periods)
        THEN AnnuityFromPresentValue(presentValue, r, n)
        ELSE IF Truthy(futureValue) /\ rate # undefined /\ Truthy(periods)
        THEN AnnuityFromFutureValue(futureValue, r, n)
        ELSE Throw(InsufficientAnnuityParameters)

\* a variant that tests presentValue before payment
calculateOrdinaryAnnuity_presentValueFirst(payment, rate, periods, presentValue, futureValue) ==
    LET r == Div(JsOr(rate, Zero), Hundred)
        n == JsOr(periods, Zero)
    IN  IF Truthy(presentValue) /\ Truthy(rate) /\ Truthy(periods)
        THEN AnnuityFromPresentValue(presentValue, r, n)
        ELSE IF Truthy(payment) /\ Truthy(rate) /\ Truthy(periods)
        THEN AnnuityFromPayment(payment, r, n)
        ELSE IF Truthy(futureValue) /\ Truthy(rate) /\ Truthy(periods)
        THEN AnnuityFromFutureValue(futureValue, r, n)
        ELSE Throw(InsufficientAnnuityParameters)

\* a variant without the futureValue case
calculateOrdinaryAnnuity_noFutureValueCase(payment, rate, periods, presentValue, futureValue) ==
    LET r == Div(JsOr(rate, Zero), Hundred)
        n == JsOr(periods, Zero)
    IN  IF Truthy(payment) /\ Truthy(rate) /\ Truthy(periods)
        THEN AnnuityFromPayment(payment, r, n)
        ELSE IF Truthy(presentValue) /\ Truthy(rate) /\ Truthy(periods)
        THEN AnnuityFromPresentValue(presentValue, r, n)
        ELSE Throw(InsufficientAnnuityParameters)

calculateOrdinaryAnnuity(payment, rate, periods, presentValue, futureValue) ==
    LET r == Div(JsOr(rate, Zero), Hundred)
        n == JsOr(periods, Zero)
    IN  IF Truthy(payment) /\ Truthy(rate) /\ Truthy(periods)
        THEN AnnuityFromPayment(payment, r, n)
        ELSE IF Truthy(presentValue) /\ Truthy(rate) /\ Truthy(periods)
        THEN AnnuityFromPresentValue(presentValue, r, n)
        ELSE IF Truthy(futureValue) /\ Truthy(rate) /\ Truthy(periods)
        THEN AnnuityFromFutureValue(futureValue, r, n)
        ELSE Throw(InsufficientAnnuityParameters)

----------------------------------------------------------------------------
(* The calculator pages: simple_interest_calc_Version2.jsx 19-43,         *)
(* compound_interest_calc_Version2.js 31-54 and                            *)
(* annuities_calculator_Version2.jsx 28-62.  A field's text is a sequence  *)
(* of characters.                                                          *)

Digits == <<"0", "1", "2", "3", "4", "5", "6", "7", "8", "9">>
IsDigit(c) == \E i \in 1..10 : Digits[i] = c
DigitValue(c) == (CHOOSE i \in 1..10 : Digits[i] = c) - 1

\* the position after the leading white space of text
FirstNonSpace(text) ==
    CHOOSE k \in 1..(Len(text) + 1) :
        /\ \A i \in 1..(k - 1) : text[i] = " "
        /\ k <= Len(text) => text[k] # " "

\* the length of the longest run of decimal digits of text that starts at from
DigitRun(text, from) ==
    CHOOSE k \in 0..(Len(text) + 1 - from) :
        /\ \A i \in from..(from + k - 1) : IsDigit(text[i])
        /\ from + k <= Len(text) => ~IsDigit(text[from + k])

\* the number written by the decimal digits text[from..to]
RECURSIVE DecimalValue(_, _, _)
DecimalValue(text, from, to) ==
    IF to < from THEN 0
    ELSE 10 * DecimalValue(text, from, to - 1) + DigitValue(text[to])

\* the sign of the literal that starts at position start: -1, 1, or 0 when
\* it has no sign character
SignAt(text, start) ==
    IF start > Len(text) THEN 0
    ELSE IF text[start] = "-" THEN -1
    ELSE IF text[start] = "+" THEN 1 ELSE 0

\* the digits text[first..dot-1], followed by "." and `fraction` digits when
\* fraction > 0
DecimalLiteral(text, sign, first, dot, fraction) ==
    IF dot - first + fraction = 0 THEN NaN
    ELSE Mul(Int2Num(IF sign = -1 THEN -1 ELSE 1),
             Add(Int2Num(DecimalValue(text, first, dot - 1)),
                 Div(Int2Num(DecimalValue(text, dot + 1, dot + fraction)),
                     Int2Num(IPow(10, fraction)))))

\* the number of fraction digits of the literal whose integer digits end
\* before position dot
FractionDigits(text, dot) ==
    IF dot <= Len(text) /\ text[dot] = "." THEN DigitRun(text, dot + 1) ELSE 0

\* parseFloat(text): the longest prefix of the trimmed text that is a signed
\* decimal literal (digits with an optional fraction); NaN when there is
\* none.  The exponent part and the literal Infinity are not read: no field
\* text of the model holds one.
ParseFloat(text) ==
    LET start == FirstNonSpace(text)
        first == IF SignAt(text, start) = 0 THEN start ELSE start + 1
        dot == first + DigitRun(text, first)
    IN  DecimalLiteral(text, SignAt(text, start), first, dot,
                       FractionDigits(text, dot))

\* parseInt(text): the longest prefix of the trimmed text that is a signed
\* run of decimal digits; NaN when there is none
ParseInt(text) ==
    LET start == FirstNonSpace(text)
        first == IF SignAt(text, start) = 0 THEN start ELSE start + 1
    IN  DecimalLiteral(text, SignAt(text, start), first,
                       first + DigitRun(text, first), 0)

\* field ? parseFloat(field) : undefined (the empty string is falsy)
OptionalField(field) == IF field # <<>> THEN ParseFloat(field) ELSE undefined

SufficientParametersMessage == "Please provide sufficient parameters for calculation"
ValidRateAndPeriodsMessage == "Please enter valid interest rate and number of periods"

\* the handler with a catch block that also drops the stored result
TryCalculate_resetsResult(o, previous) ==
    [result |-> IF o.error = "" THEN o ELSE NoCall,
     error |-> IF o.error = "" THEN "" ELSE SufficientParametersMessage,
     escaped |-> FALSE]

\* the handler without its try/catch: an exception of the solver leaves
\* handleCalculate
TryCalculate_noCatch(o, previous) ==
    [result |-> IF o.error = "" THEN o ELSE previous,
     error |-> "",
     escaped |-> o.error # ""]

\* setError(""); try { const calculation = ...; setResult(calculation) }
\* catch (err) { setError(message) }: the page's state after the solver
\* call had the outcome o
TryCalculate(o, previous) ==
    [result |-> IF o.error = "" THEN o ELSE previous,
     error |-> IF o.error = "" THEN "" ELSE SufficientParametersMessage,
     escaped |-> FALSE]

----------------------------------------------------------------------------
(* The callers' inputs *)

Principals == {undefined, Zero, Int2Num(1000), Int2Num(500)}
Rates == {undefined, Zero, Int2Num(10), Int2Num(50), Int2Num(100),
          Int2Num(-50), Int2Num(-100)}
Times == {undefined, Zero, One, Int2Num(2), Int2Num(5), Num(1, 2), Num(1, 4)}
FutureValues == {undefined, Zero, Int2Num(2000), Int2Num(1500), Int2Num(500),
                 Int2Num(-2000)}
\* the compounding select offers 1, 2, 4, 12, 52, 365; undefined takes the default
Frequencies == {undefined, One, Int2Num(2), Int2Num(12)}

SimpleArgs == [principal : Principals, rate : Rates, time : Times,
               futureValue : FutureValues]
CompoundArgs == [principal : Principals, rate : Rates, time : Times,
                 compoundingFreq : Frequencies, futureValue : FutureValues]

\* the loan page's fields once parsed; NaN is a field that holds no number
LoanAmounts == {NaN, Int2Num(1200), Int2Num(250000)}
LoanRates == {NaN, Zero, Int2Num(300), Int2Num(600), Int2Num(1200)}
LoanTerms == {NaN} \cup {Norm(k, 12) : k \in 1..MaxMonths}
LoanArgs == [loanAmount : LoanAmounts, interestRate : LoanRates,
             termYears : LoanTerms]

AnnuityArgs == [payment : {undefined, Zero, Int2Num(1000)},
                rate : {undefined, Zero, Int2Num(10), Int2Num(50), Int2Num(100),
                        Int2Num(-100)},
                periods : {undefined, Zero, One, Int2Num(2), Int2Num(3),
                           Int2Num(10)},
                presentValue : {undefined, Zero, Int2Num(1000)},
                futureValue : {undefined, Zero, Int2Num(3000)}]

ConverterFrequencies == {undefined, Zero, One, Int2Num(2)}
ConverterTimes == {Zero, One, Int2Num(2), Num(1, 2)}
SimpleRateArgs ==
    [simpleRate : {NaN, Zero, Int2Num(10), Int2Num(100), Int2Num(150),
                   Int2Num(300), Int2Num(400), Int2Num(-50), Int2Num(-100),
                   Int2Num(-300)},
     timePeriod : ConverterTimes,
     compoundingFreq : ConverterFrequencies]
EffectiveRateArgs ==
    [effectiveRate : {NaN, Zero, Int2Num(100), Int2Num(300), Int2Num(800),
                      Int2Num(-50), Int2Num(-100)},
     compoundingFreq : ConverterFrequencies,
     timePeriod : ConverterTimes \cup {undefined}]
NominalRateArgs ==
    [nominalRate : {NaN, Zero, Int2Num(100), Int2Num(200), Int2Num(-100),
                    Int2Num(-200)},
     compoundingFreq : {Zero, One, Int2Num(2)},
     targetCompoundingFreq : ConverterFrequencies]

\* undefined takes the parameter's default
\* the texts of the simple-interest page's fields (number inputs: a decimal
\* literal or nothing)
SimpleCalculationTypes ==
    {"future-value", "present-value", "interest-rate", "time-period", "interest-earned"}

CompoundCalculationTypes ==
    {"future-value", "present-value", "interest-rate", "time-period"}

SimplePageFields ==
    [calculationType : SimpleCalculationTypes,
     principal : {<<>>, <<"0">>, <<"1", "0", "0", "0">>},
     rate : {<<>>, <<"0">>, <<"1", "0">>, <<"2", ".", "5">>},
     time : {<<>>, <<"0">>, <<"2">>, <<"0", ".", "5">>},
     futureValue : {<<>>, <<"0">>, <<"1", "5", "0", "0">>}]

\* the compound-interest page's fields; compounding holds a value of the select
CompoundPageFields ==
    [calculationType : CompoundCalculationTypes,
     principal : {<<>>, <<"0">>, <<"1", "0", "0", "0">>},
     rate : {<<>>, <<"0">>, <<"1", "0">>},
     time : {<<>>, <<"0">>, <<"2">>, <<"0", ".", "5">>},
     futureValue : {<<>>, <<"0">>, <<"1", "2", "1", "0">>},
     compounding : {<<"1">>, <<"2">>}]

AnnuityPageFields ==
    [payment : {<<>>, <<"0">>, <<"1", "0", "0", "0">>},
     presentValue : {<<>>, <<"0">>, <<"1", "0", "0", "0">>},
     futureValue : {<<>>, <<"0">>, <<"3", "0", "0", "0">>},
     interestRate : {<<>>, <<"0">>, <<"1", "0">>, <<"1", "0", "0">>},
     periods : {<<>>, <<"0">>, <<"2">>}]

Pages == {"simplePage", "compoundPage", "annuityPage"}

PageFields(page) ==
    CASE page = "simplePage" -> SimplePageFields
      [] page = "compoundPage" -> CompoundPageFields
      [] page = "annuityPage" -> AnnuityPageFields

\* the rate converter page's fields; toRateType is not read by handleCalculate
RateTypes == {"simple", "effective-annual", "nominal", "effective-periodic", "force"}

ConverterPageFields ==
    [fromRateType : RateTypes,
     inputRate : {<<>>, <<"1", "0", "0">>, <<"3", "0", "0">>},
     timePeriod : {<<>>, <<"1">>, <<"2">>},
     fromCompounding : {<<"1">>, <<"2">>},
     toCompounding : {<<"1">>, <<"2">>}]

ScenarioArgs ==
    [nominalRate : {undefined, Zero, Int2Num(600), Int2Num(1200)},
     initialInvestment : {undefined, Zero, Int2Num(5), Int2Num(100)},
     inflationRate : {undefined, Zero, Int2Num(100)},
     firstWithdrawalValue : {undefined, Zero, Int2Num(3), Int2Num(50)},
     investmentYears : {undefined, Zero, Num(1, 12), Num(1, 2), One, Int2Num(2)},
     withdrawalYears : {undefined, Num(1, 12), Num(1, 4), One, Int2Num(2)}]

----------------------------------------------------------------------------
(* The state machine: a caller picks a solver and its arguments (Init),   *)
(* the call returns or throws.                                             *)

Init ==
    /\ pc = "ready"
    /\ \/ fn = "simple" /\ args \in SimpleArgs
       \/ fn = "compound" /\ args \in CompoundArgs
       \/ fn = "loan" /\ args \in LoanArgs
       \/ fn = "annuity" /\ args \in AnnuityArgs
       \/ fn = "convertFromSimple" /\ args \in SimpleRateArgs
       \/ fn = "convertFromEffectiveAnnual" /\ args \in EffectiveRateArgs
       \/ fn = "convertFromNominal" /\ args \in NominalRateArgs
       \/ fn = "solveProblem64" /\ args \in ScenarioArgs
       \/ fn \in Pages /\ args \in PageFields(fn)
       \/ fn = "converterPage" /\ args \in ConverterPageFields
    /\ result = NoCall
    /\ conversions = NoCall
    /\ amortizationTable = <<>>
    /\ roundTrip = NoCall
    /\ error = ""
    /\ calculation = NoCall
    /\ escaped = FALSE
    /\ iterations = NoIterations
    /\ calculations = 0

CallSimpleInterest ==
    /\ pc = "ready" /\ fn = "simple"
    /\ \E o \in {calculateSimpleInterest(args.principal, args.rate, args.time,
                                        args.futureValue)} :
           InModel(o) /\ result' = o
    /\ pc' = "returned"
    /\ UNCHANGED <<fn, conversions, args, amortizationTable, roundTrip, pageVars, iterations, calculations>>

CallCompoundInterest ==
    /\ pc = "ready" /\ fn = "compound"
    /\ \E o \in {calculateCompoundInterest(args.principal, args.rate, args.time,
                                          args.compoundingFreq, args.futureValue)} :
           InModel(o) /\ result' = o
    /\ pc' = "returned"
    /\ UNCHANGED <<fn, conversions, args, amortizationTable, roundTrip, pageVars, iterations, calculations>>

\* the round trip of the compound solver: the computed futureValue is fed
\* back as the futureValue argument with the principal removed
CompoundFeedBack ==
    /\ pc = "returned" /\ fn = "compound"
    /\ result.error = ""
    /\ \E o \in {calculateCompoundInterest(undefined, args.rate, args.time,
                                          args.compoundingFreq,
                                          result.value.futureValue)} :
           InModel(o) /\ roundTrip' = o
    /\ pc' = "fedback"
    /\ UNCHANGED <<fn, conversions, args, result, amortizationTable, pageVars, iterations, calculations>>

\* the guard of line 338 as a reset: the page forgets its loan and schedule
LoanHandleCalculateNaN_resets ==
    /\ pc = "ready" /\ fn = "loan"
    /\ IsNaN(args.loanAmount) \/ IsNaN(args.interestRate) \/ IsNaN(args.termYears)
    /\ calculation' = NoCall
    /\ result' = NoCall
    /\ amortizationTable' = <<>>
    /\ pc' = "returned"
    /\ UNCHANGED <<fn, conversions, args, roundTrip, error, escaped, iterations, calculations>>

\* LoanCalculator.handleCalculate, line 338: a field is not a number
LoanHandleCalculateNaN ==
    /\ pc = "ready" /\ fn = "loan"
    /\ IsNaN(args.loanAmount) \/ IsNaN(args.interestRate) \/ IsNaN(args.termYears)
    /\ calculation' = NoCall
    /\ pc' = "returned"
    /\ UNCHANGED <<fn, conversions, args, result, amortizationTable, roundTrip, error, escaped, iterations, calculations>>

\* every cell of the schedule is a value the number model holds
TableInModel(table) ==
    \A i \in DOMAIN table : \A f \in DOMAIN table[i] : table[i][f] # OutOfModel

\* LoanCalculator.handleCalculate, lines 340-344
LoanHandleCalculate ==
    /\ pc = "ready" /\ fn = "loan"
    /\ ~(IsNaN(args.loanAmount) \/ IsNaN(args.interestRate) \/ IsNaN(args.termYears))
    /\ \E loanResult \in {calculateLoan(args.loanAmount, args.interestRate,
                                         args.termYears)} :
       \E table \in {generateAmortizationTable(args.loanAmount,
                         args.interestRate, args.termYears,
                         loanResult.value.monthlyPayment)} :
           /\ InModel(loanResult) /\ TableInModel(table)
           /\ result' = loanResult
           /\ amortizationTable' = table
           /\ calculation' = loanResult
    /\ pc' = "returned"
    /\ UNCHANGED <<fn, conversions, args, roundTrip, error, escaped, iterations, calculations>>

\* the user changes the loan page's fields after a calculation (the fields'
\* onChange handlers, lines 420-446)
LoanEditFields ==
    /\ pc = "returned" /\ fn = "loan"
    /\ args' \in LoanArgs
    /\ pc' = "ready"
    /\ UNCHANGED <<fn, conversions, result, amortizationTable, roundTrip, pageVars, iterations, calculations>>

CallOrdinaryAnnuity ==
    /\ pc = "ready" /\ fn = "annuity"
    /\ \E o \in {calculateOrdinaryAnnuity(args.payment, args.rate, args.periods,
                                         args.presentValue, args.futureValue)} :
           InModel(o) /\ result' = o
    /\ pc' = "returned"
    /\ UNCHANGED <<fn, conversions, args, amortizationTable, roundTrip, pageVars, iterations, calculations>>

\* a converter returns its record whatever the arguments are; a field the
\* number model does not hold (a logarithm, an irrational root) stays unknown
CallConvertFromSimple ==
    /\ pc = "ready" /\ fn = "convertFromSimple"
    /\ result' = convertFromSimple(args.simpleRate, args.timePeriod,
                                   args.compoundingFreq)
    /\ pc' = "returned"
    /\ UNCHANGED <<fn, conversions, args, amortizationTable, roundTrip, pageVars, iterations, calculations>>

CallConvertFromEffectiveAnnual ==
    /\ pc = "ready" /\ fn = "convertFromEffectiveAnnual"
    /\ result' = convertFromEffectiveAnnual(args.effectiveRate,
                                            args.compoundingFreq, args.timePeriod)
    /\ pc' = "returned"
    /\ UNCHANGED <<fn, conversions, args, amortizationTable, roundTrip, pageVars, iterations, calculations>>

CallConvertFromNominal ==
    /\ pc = "ready" /\ fn = "convertFromNominal"
    /\ result' = convertFromNominal(args.nominalRate, args.compoundingFreq,
                                    args.targetCompoundingFreq)
    /\ pc' = "returned"
    /\ UNCHANGED <<fn, conversions, args, amortizationTable, roundTrip, pageVars, iterations, calculations>>

\* the round trip of the converters: the effectiveAnnual field of
\* convertFromSimple's record is converted back in the same context (t, m)
ConvertBackFromEffectiveAnnual ==
    /\ pc = "returned" /\ fn = "convertFromSimple"
    /\ result.error = ""
    /\ roundTrip' = convertFromEffectiveAnnual(result.value.effectiveAnnual,
                                               args.compoundingFreq,
                                               args.timePeriod)
    /\ pc' = "fedback"
    /\ UNCHANGED <<fn, conversions, args, result, amortizationTable, pageVars, iterations, calculations>>

\* a call of solveProblem64 returns its record whatever the arguments are; a
\* field the number model does not hold stays unknown
CallSolveProblem64 ==
    /\ pc = "ready" /\ fn = "solveProblem64"
    /\ result' = solveProblem64(args.nominalRate, args.initialInvestment,
                                args.inflationRate, args.firstWithdrawalValue,
                                args.investmentYears, args.withdrawalYears)
    /\ iterations' = [withdrawals |-> WithdrawalMonths(args.withdrawalYears),
                      contributions |-> ContributionMonths(args.investmentYears)]
    /\ pc' = "returned"
    /\ UNCHANGED <<fn, conversions, args, amortizationTable, roundTrip, pageVars, calculations>>

\* the page's state after the try block: calculation is the outcome of the
\* solver call
SetPageState(o) ==
    \E after \in {TryCalculate(o, result)} :
        /\ result' = after.result
        /\ error' = after.error
        /\ escaped' = after.escaped
        /\ calculation' = o

\* whether the page lets the user change the field: an input of the simple or
\* the compound page is disabled, or not rendered, for some calculation types
Editable(page, field, a) ==
    IF page = "annuityPage" THEN TRUE
    ELSE CASE field = "principal" -> a.calculationType # "present-value"
           [] field = "rate" -> a.calculationType # "interest-rate"
           [] field = "time" -> a.calculationType # "time-period"
           [] field = "futureValue" ->
                  a.calculationType \in {"present-value", "interest-rate", "time-period"}
           [] OTHER -> TRUE

\* the text handleCalculate would read if it left out the fields the page
\* disables or hides for the selected calculation type
SelectedTypeField(page, field, a) ==
    IF Editable(page, field, a) THEN OptionalField(a[field]) ELSE undefined

\* a handleCalculate that passes the enabled fields only
SimpleHandleCalculate_selectedType ==
    /\ pc = "ready" /\ fn = "simplePage"
    /\ \E p \in {SelectedTypeField(fn, "principal", args)},
          r \in {SelectedTypeField(fn, "rate", args)},
          t \in {SelectedTypeField(fn, "time", args)},
          fv \in {SelectedTypeField(fn, "futureValue", args)} :
       \E o \in {calculateSimpleInterest(p, r, t, fv)} :
           InModel(o) /\ SetPageState(o)
    /\ pc' = "returned"
    /\ calculations < MaxCalculations
    /\ calculations' = calculations + 1
    /\ UNCHANGED <<fn, conversions, args, amortizationTable, roundTrip, iterations>>

\* SimpleInterestCalculator.handleCalculate, lines 29-43
SimpleHandleCalculate ==
    /\ pc = "ready" /\ fn = "simplePage"
    /\ \E p \in {OptionalField(args.principal)},
          r \in {OptionalField(args.rate)},
          t \in {OptionalField(args.time)},
          fv \in {OptionalField(args.futureValue)} :
       \E o \in {calculateSimpleInterest(p, r, t, fv)} :
           InModel(o) /\ SetPageState(o)
    /\ pc' = "returned"
    /\ calculations < MaxCalculations
    /\ calculations' = calculations + 1
    /\ UNCHANGED <<fn, conversions, args, amortizationTable, roundTrip, iterations>>

\* CompoundInterestCalculator.handleCalculate, lines 39-54
CompoundHandleCalculate ==
    /\ pc = "ready" /\ fn = "compoundPage"
    /\ \E p \in {OptionalField(args.principal)},
          r \in {OptionalField(args.rate)},
          t \in {OptionalField(args.time)},
          fv \in {OptionalField(args.futureValue)},
          freq \in {ParseInt(args.compounding)} :
       \E o \in {calculateCompoundInterest(p, r, t, freq, fv)} :
           InModel(o) /\ SetPageState(o)
    /\ pc' = "returned"
    /\ calculations < MaxCalculations
    /\ calculations' = calculations + 1
    /\ UNCHANGED <<fn, conversions, args, amortizationTable, roundTrip, iterations>>

\* AnnuitiesCalculator.handleCalculate, lines 40-62
AnnuityHandleCalculate ==
    /\ pc = "ready" /\ fn = "annuityPage"
    /\ \E pmt \in {OptionalField(args.payment)},
          pv \in {OptionalField(args.presentValue)},
          fv \in {OptionalField(args.futureValue)},
          rate \in {ParseFloat(args.interestRate)},
          n \in {ParseFloat(args.periods)} :
       IF IsNaN(rate) \/ IsNaN(n)
       THEN /\ error' = ValidRateAndPeriodsMessage
            /\ calculation' = NoCall
            /\ UNCHANGED <<result, escaped>>
       ELSE \E o \in {calculateOrdinaryAnnuity(pmt, rate, n, pv, fv)} :
                InModel(o) /\ SetPageState(o)
    /\ pc' = "returned"
    /\ calculations < MaxCalculations
    /\ calculations' = calculations + 1
    /\ UNCHANGED <<fn, conversions, args, amortizationTable, roundTrip, iterations>>

\* the user changes one field after a calculation (the field's onChange or
\* the select's onValueChange handler)
EditField ==
    /\ pc = "returned" /\ fn \in Pages
    /\ calculations < MaxCalculations
    /\ \E field \in DOMAIN args :
         /\ Editable(fn, field, args)
         /\ \E text \in {a[field] : a \in PageFields(fn)} :
                /\ text # args[field]
                /\ args' = [args EXCEPT ![field] = text]
    /\ pc' = "ready"
    /\ UNCHANGED <<fn, conversions, result, amortizationTable, roundTrip, pageVars, iterations, calculations>>

\* clearForm of the three pages: the number fields are emptied, the selects
\* keep their values
ClearedFields(a) ==
    [field \in DOMAIN a |->
        IF field \in {"calculationType", "compounding", "interestRate", "periods"}
        THEN a[field] ELSE <<>>]

ClearForm ==
    /\ pc = "returned" /\ fn \in Pages
    /\ args' = ClearedFields(args)
    /\ result' = NoCall
    /\ error' = ""
    /\ pc' = "ready"
    /\ UNCHANGED <<fn, conversions, amortizationTable, roundTrip, calculation, escaped, iterations, calculations>>

\* a switch whose default branch converts from a nominal rate
ConvertBySourceType_defaultNominal(fromRateType, rate, time, fromFreq, toFreq) ==
    CASE fromRateType = "simple" -> convertFromSimple(rate, time, toFreq)
      [] fromRateType = "effective-annual" -> convertFromEffectiveAnnual(rate, toFreq, time)
      [] fromRateType = "nominal" -> convertFromNominal(rate, fromFreq, toFreq)
      [] OTHER -> convertFromNominal(rate, fromFreq, toFreq)

\* switch (fromRateType), interest_rate_converter_Version2.jsx lines 55-68
ConvertBySourceType(fromRateType, rate, time, fromFreq, toFreq) ==
    CASE fromRateType = "simple" -> convertFromSimple(rate, time, toFreq)
      [] fromRateType = "effective-annual" -> convertFromEffectiveAnnual(rate, toFreq, time)
      [] fromRateType = "nominal" -> convertFromNominal(rate, fromFreq, toFreq)
      [] OTHER -> convertFromSimple(rate, time, toFreq)

\* InterestRateConverter.handleCalculate, lines 45-70
ConverterHandleCalculate ==
    /\ pc = "ready" /\ fn = "converterPage"
    /\ \E rate \in {ParseFloat(args.inputRate)},
          time \in {ParseFloat(args.timePeriod)},
          fromFreq \in {ParseInt(args.fromCompounding)},
          toFreq \in {ParseInt(args.toCompounding)} :
       IF IsNaN(rate) \/ IsNaN(time)
       THEN UNCHANGED conversions
       ELSE conversions' = ConvertBySourceType(args.fromRateType, rate, time, fromFreq, toFreq)
    /\ pc' = "returned"
    /\ calculations < MaxCalculations
    /\ calculations' = calculations + 1
    /\ UNCHANGED <<fn, args, result, amortizationTable, roundTrip, pageVars, iterations>>

\* the user changes one field of the converter page after a calculation
ConverterEditField ==
    /\ pc = "returned" /\ fn = "converterPage"
    /\ calculations < MaxCalculations
    /\ \E field \in DOMAIN args :
         \E text \in {a[field] : a \in ConverterPageFields} :
             /\ text # args[field]
             /\ args' = [args EXCEPT ![field] = text]
    /\ pc' = "ready"
    /\ UNCHANGED <<fn, conversions, result, amortizationTable, roundTrip, pageVars, iterations, calculations>>

Next ==
    \/ CallSimpleInterest
    \/ CallCompoundInterest
    \/ CompoundFeedBack
    \/ LoanHandleCalculateNaN
    \/ LoanHandleCalculate
    \/ LoanEditFields
    \/ CallOrdinaryAnnuity
    \/ CallConvertFromSimple
    \/ CallConvertFromEffectiveAnnual
    \/ CallConvertFromNominal
    \/ ConvertBackFromEffectiveAnnual
    \/ CallSolveProblem64
    \/ SimpleHandleCalculate
    \/ CompoundHandleCalculate
    \/ AnnuityHandleCalculate
    \/ EditField
    \/ ClearForm
    \/ ConverterHandleCalculate
    \/ ConverterEditField

Spec == Init /\ [][Next]_vars

----------------------------------------------------------------------------
(* Properties of the simple-interest solver *)

\* an argument is present when it is supplied and not zero (a falsy value
\* counts as absent)
Present(x) == x # undefined /\ x # NaN /\ x # Zero
NumPresent(S) == Cardinality({i \in DOMAIN S : Present(S[i])})
Positive(x) == Lt(Zero, x)

SimpleReturned == pc = "returned" /\ fn = "simple"

\* C1: calculateSimpleInterest uses the first case, in the order
\* (principal,rate,time), (futureValue,rate,time), (principal,futureValue,time),
\* (principal,rate,futureValue), whose three inputs are all present: it echoes
\* those three inputs and computes the one field the case names; no later case
\* is used when an earlier one matches.
C1_FirstMatchingCase ==
    SimpleReturned =>
        LET P == args.principal
            r == args.rate
            t == args.time
            fv == args.futureValue
            v == result.value
            c1 == Present(P) /\ Present(r) /\ Present(t)
            c2 == Present(fv) /\ Present(r) /\ Present(t)
            c3 == Present(P) /\ Present(fv) /\ Present(t)
            c4 == Present(P) /\ Present(r) /\ Present(fv)
        IN  /\ c1 =>
                /\ result.error = ""
                /\ v.principal = P /\ v.rate = r /\ v.time = t
                /\ v.futureValue = Add(P, Mul(Mul(P, Div(r, Hundred)), t))
            /\ (~c1 /\ c2) =>
                /\ result.error = ""
                /\ v.futureValue = fv /\ v.rate = r /\ v.time = t
                /\ v.principal = Div(fv, Add(One, Mul(Div(r, Hundred), t)))
            /\ (~c1 /\ ~c2 /\ c3) =>
                /\ result.error = ""
                /\ v.principal = P /\ v.futureValue = fv /\ v.time = t
                /\ v.rate = Mul(Div(Sub(fv, P), Mul(P, t)), Hundred)
            /\ (~c1 /\ ~c2 /\ ~c3 /\ c4) =>
                /\ result.error = ""
                /\ v.principal = P /\ v.rate = r /\ v.futureValue = fv
                /\ v.time = Div(Sub(fv, P), Mul(P, Div(r, Hundred)))

\* all four arguments present: the first case won and the supplied
\* futureValue was not echoed
C1_Witness ==
    /\ SimpleReturned
    /\ NumPresent(<<args.principal, args.rate, args.time, args.futureValue>>) = 4
    /\ result.error = ""
    /\ result.value.futureValue # args.futureValue

\* C2: with principal P > 0, rate r > 0 and time t > 0 the result has
\* futureValue = P + P*(r/100)*t and echoes P, r, t, whether or not a
\* futureValue was supplied; (1000, 10, 5, 2000) yields futureValue 1500.
C2_FutureValueFromPrincipalRateTime ==
    SimpleReturned =>
        LET P == args.principal
            r == args.rate
            t == args.time
            v == result.value
        IN  /\ (Positive(P) /\ Positive(r) /\ Positive(t)) =>
                /\ result.error = ""
                /\ JsEq(v.futureValue, Add(P, Mul(Mul(P, Div(r, Hundred)), t)))
                /\ JsEq(v.principal, P) /\ JsEq(v.rate, r) /\ JsEq(v.time, t)
            /\ (P = Int2Num(1000) /\ r = Int2Num(10) /\ t = Int2Num(5)) =>
                result.value.futureValue = Int2Num(1500)

C2_Witness ==
    /\ SimpleReturned
    /\ args = [principal |-> Int2Num(1000), rate |-> Int2Num(10),
               time |-> Int2Num(5), futureValue |-> Int2Num(2000)]
    /\ result.value.futureValue = Int2Num(1500)

\* C3: calculateSimpleInterest fails with the insufficient-parameters error
\* exactly when fewer than three of principal, rate, time, futureValue are
\* present; with three or more present it returns a record.
C3_InsufficientIffFewerThanThree ==
    SimpleReturned =>
        LET k == NumPresent(<<args.principal, args.rate, args.time,
                              args.futureValue>>)
        IN  /\ (result.error = InsufficientParameters) <=> (k < 3)
            /\ (k >= 3) => (result.error = "" /\ DOMAIN result.value =
                    {"principal", "rate", "time", "interest", "futureValue"})

\* exactly principal, rate and futureValue present: the last case returns
C3_Witness ==
    /\ SimpleReturned
    /\ Present(args.principal) /\ Present(args.rate) /\ Present(args.futureValue)
    /\ ~Present(args.time)
    /\ result.error = ""

\* C5: every record returned by calculateSimpleInterest satisfies
\* futureValue = principal + interest and interest = principal*(rate/100)*time.
C5_SimpleResultInvariant ==
    (SimpleReturned /\ result.error = "") =>
        LET v == result.value
        IN  /\ JsEq(v.futureValue, Add(v.principal, v.interest))
            /\ JsEq(v.interest, Mul(Mul(v.principal, Div(v.rate, Hundred)), v.time))

\* the same, for calls whose present arguments are all positive
C5_SimpleResultInvariantPositiveInputs ==
    (SimpleReturned /\ result.error = ""
        /\ \A f \in DOMAIN args : Present(args[f]) => Positive(args[f])) =>
        LET v == result.value
        IN  /\ JsEq(v.futureValue, Add(v.principal, v.interest))
            /\ JsEq(v.interest, Mul(Mul(v.principal, Div(v.rate, Hundred)), v.time))

----------------------------------------------------------------------------
(* Properties of the compound-interest solver *)

CompoundReturned == pc = "returned" /\ fn = "compound"

\* C4: calculateCompoundInterest fails with the insufficient-parameters error
\* whenever no case has its three required inputs among principal, rate,
\* time, futureValue present, whatever compoundingFreq is; the call
\* (undefined, undefined, 5, 12, undefined) fails.
C4_CompoundInsufficient ==
    CompoundReturned =>
        LET P == args.principal
            r == args.rate
            t == args.time
            fv == args.futureValue
            someCase == \/ Present(P) /\ Present(r) /\ Present(t)
                        \/ Present(fv) /\ Present(r) /\ Present(t)
                        \/ Present(P) /\ Present(fv) /\ Present(t)
                        \/ Present(P) /\ Present(r) /\ Present(fv)
        IN  ~someCase => result.error = InsufficientParameters

C4_Witness ==
    /\ CompoundReturned
    /\ args = [principal |-> undefined, rate |-> undefined, time |-> Int2Num(5),
               compoundingFreq |-> Int2Num(12), futureValue |-> undefined]
    /\ result.error = InsufficientParameters

ValidCompound ==
    /\ Positive(args.principal) /\ Positive(args.rate) /\ Positive(args.time)
    /\ Positive(Default(args.compoundingFreq, One))

\* C6: for valid (positive) P, r, t, n, feeding the futureValue computed by
\* calculateCompoundInterest(P, r, t, n) back with the principal removed
\* returns a record whose principal is P.
C6_CompoundRoundTrip ==
    (pc = "fedback" /\ fn = "compound" /\ ValidCompound) =>
        /\ roundTrip.error = ""
        /\ JsEq(roundTrip.value.principal, args.principal)

\* a round trip at a compounding frequency other than 1
C6_Witness ==
    /\ pc = "fedback" /\ fn = "compound" /\ ValidCompound
    /\ args.compoundingFreq = Int2Num(2)
    /\ result.value.futureValue # args.principal
    /\ roundTrip.value.principal = args.principal

\* C7: every record returned by calculateCompoundInterest satisfies
\* futureValue = principal*(1+rate/100/compoundingFreq)^(compoundingFreq*time).
C7_CompoundResultInvariant ==
    (CompoundReturned /\ result.error = "") =>
        LET v == result.value
        IN  JsEq(v.futureValue,
                 Mul(v.principal, GrowthFactor(v.rate, v.time, v.compoundingFreq)))

\* the same, for calls whose present arguments are all positive
C7_CompoundResultInvariantPositiveInputs ==
    (CompoundReturned /\ result.error = ""
        /\ \A f \in DOMAIN args : Present(args[f]) => Positive(args[f])) =>
        LET v == result.value
        IN  JsEq(v.futureValue,
                 Mul(v.principal, GrowthFactor(v.rate, v.time, v.compoundingFreq)))

----------------------------------------------------------------------------
(* Properties of the loan amortizer *)

\* the last handleCalculate of the loan page computed a loan
LoanReturned == pc = "returned" /\ fn = "loan" /\ calculation # NoCall

RECURSIVE SumPrincipalPayments(_)
SumPrincipalPayments(table) ==
    IF table = <<>> THEN Zero
    ELSE Add(table[1].principalPayment, SumPrincipalPayments(Tail(table)))

\* C8: for annualRate = 0 calculateLoan returns
\* monthlyPayment = loanAmount/termMonths.
C8_ZeroRatePayment ==
    (LoanReturned /\ args.interestRate = Zero) =>
        JsEq(result.value.monthlyPayment,
             Div(args.loanAmount, Mul(args.termYears, Twelve)))

\* C9: the schedule generated with the monthlyPayment calculateLoan returned
\* ends with remainingBalance = 0 and its principalPayment values sum to
\* loanAmount.
C9_AmortizesToZero ==
    (LoanReturned /\ Len(amortizationTable) > 0) =>
        /\ JsEq(amortizationTable[Len(amortizationTable)].remainingBalance, Zero)
        /\ JsEq(SumPrincipalPayments(amortizationTable), args.loanAmount)

\* the same, for loans at a rate other than 0
C9_AmortizesToZeroNonZeroRate ==
    (LoanReturned /\ args.interestRate # Zero) =>
        /\ Int2Num(Len(amortizationTable)) = Mul(args.termYears, Twelve)
        /\ JsEq(amortizationTable[Len(amortizationTable)].remainingBalance, Zero)
        /\ JsEq(SumPrincipalPayments(amortizationTable), args.loanAmount)

----------------------------------------------------------------------------
(* Properties of the annuity solver *)

AnnuityReturned == pc = "returned" /\ fn = "annuity"

\* C10: calculateOrdinaryAnnuity fails with its insufficient-parameters error
\* if and only if rate is missing, or periods is missing, or none of payment,
\* presentValue, futureValue is present; otherwise it returns a result record.
C10_AnnuityInsufficientIff ==
    AnnuityReturned =>
        LET missing == \/ ~Present(args.rate)
                       \/ ~Present(args.periods)
                       \/ ~(\/ Present(args.payment)
                            \/ Present(args.presentValue)
                            \/ Present(args.futureValue))
        IN  /\ (result.error = InsufficientAnnuityParameters) <=> missing
            /\ ~missing => (result.error = "" /\ DOMAIN result.value =
                    {"payment", "presentValue", "futureValue", "totalPayments",
                     "totalInterest"})

\* only futureValue of the three value fields is present: a record is returned
C10_Witness ==
    /\ AnnuityReturned
    /\ ~Present(args.payment) /\ ~Present(args.presentValue)
    /\ Present(args.futureValue)
    /\ result.error = ""
    /\ result.value.futureValue = args.futureValue

\* the relation between the two values of an annuity record
AnnuityRelation ==
    JsEq(result.value.futureValue,
         Mul(result.value.presentValue,
             Pow(Add(One, Div(args.rate, Hundred)), args.periods)))

\* C11: every record calculateOrdinaryAnnuity returns satisfies
\* futureValue == presentValue * (1 + r)^n, with r = rate/100 and n = periods.
C11_AnnuityFutureValueRelation ==
    (AnnuityReturned /\ result.error = "") => AnnuityRelation

\* the same relation over the records of a call whose rate is above -100
C11_AnnuityFutureValueRelationAboveMinus100 ==
    (AnnuityReturned /\ result.error = "" /\ Lt(Int2Num(-100), args.rate))
        => AnnuityRelation

\* C12: the rate = 0 case of calculateOrdinaryAnnuity is guarded: whatever
\* payment, periods, presentValue and futureValue are, a call with rate 0
\* returns no record (so none with an Infinity or NaN field, and nothing is
\* divided by the zero rate); its outcome is the insufficient-parameters error.
C12_ZeroRateGuarded ==
    (AnnuityReturned /\ args.rate = Zero) =>
        /\ result.error = InsufficientAnnuityParameters
        /\ result.value = NoValue

\* rate 0 with a payment and periods: the payment case would divide by r = 0
C12_Witness ==
    /\ AnnuityReturned
    /\ args.rate = Zero
    /\ Present(args.payment) /\ Present(args.periods)
    /\ result.error = InsufficientAnnuityParameters

----------------------------------------------------------------------------
(* Zero and absent arguments of the simple and compound solvers *)

\* x and y are the same argument, or one is absent and the other is 0
SameOrZeroForAbsent(x, y) == x = y \/ {x, y} = {undefined, Zero}

\* the argument tuples got from a by putting 0 for absent or absent for 0 in
\* any of principal, rate, time, futureValue
ZeroAbsentVariants(a, Args) ==
    {b \in Args :
        /\ \A f \in {"principal", "rate", "time", "futureValue"} :
               SameOrZeroForAbsent(a[f], b[f])
        /\ \A f \in DOMAIN a \ {"principal", "rate", "time", "futureValue"} :
               a[f] = b[f]}

\* C17: in calculateSimpleInterest and calculateCompoundInterest a numeric 0
\* is treated exactly like an absent argument: replacing any absent one of
\* principal, rate, time, futureValue by 0, or any 0 by absent, yields the
\* outcome of the original call; (1000, 0, 5, undefined) fails with the
\* insufficient-parameters error.
C17_ZeroIsAbsent ==
    /\ SimpleReturned =>
          /\ \A b \in ZeroAbsentVariants(args, SimpleArgs) :
                calculateSimpleInterest(b.principal, b.rate, b.time,
                                        b.futureValue) = result
          /\ (args = [principal |-> Int2Num(1000), rate |-> Zero,
                      time |-> Int2Num(5), futureValue |-> undefined])
                => result.error = InsufficientParameters
    /\ CompoundReturned =>
          \A b \in ZeroAbsentVariants(args, CompoundArgs) :
              calculateCompoundInterest(b.principal, b.rate, b.time,
                                        b.compoundingFreq, b.futureValue) = result

\* the call (1000, 0, 5, undefined) has failed, as (1000, undefined, 5,
\* undefined) does
C17_Witness ==
    /\ SimpleReturned
    /\ args = [principal |-> Int2Num(1000), rate |-> Zero, time |-> Int2Num(5),
               futureValue |-> undefined]
    /\ result.error = InsufficientParameters
    /\ [args EXCEPT !.rate = undefined] \in ZeroAbsentVariants(args, SimpleArgs)

----------------------------------------------------------------------------
(* Properties of the rate converters *)

ConverterReturned ==
    /\ pc \in {"returned", "fedback"}
    /\ fn \in {"convertFromSimple", "convertFromEffectiveAnnual",
               "convertFromNominal"}

NotFinite(x) == IsNaN(x) \/ IsInf(x)

\* the frequency a converter divides by: compoundingFreq (default 1) of
\* convertFromSimple and convertFromEffectiveAnnual, targetCompoundingFreq
\* (default 1) of convertFromNominal
TargetFrequency ==
    IF fn = "convertFromNominal" THEN Default(args.targetCompoundingFreq, One)
    ELSE Default(args.compoundingFreq, One)

\* the rate argument of the call
RateArgument ==
    IF fn = "convertFromSimple" THEN args.simpleRate
    ELSE IF fn = "convertFromEffectiveAnnual" THEN args.effectiveRate
    ELSE args.nominalRate

\* a zero timePeriod leaves no finite value in the fields computed from it
ZeroTimeFieldsNotFinite ==
    /\ (fn = "convertFromSimple" /\ IsZero(args.timePeriod)) =>
          /\ NotFinite(result.value.effectiveAnnual)
          /\ NotFinite(result.value.nominal)
          /\ NotFinite(result.value.effectivePeriodic)
          /\ NotFinite(result.value.forceOfInterest)
    /\ (fn = "convertFromEffectiveAnnual" /\ IsZero(args.timePeriod)) =>
          NotFinite(result.value.simple)

ConvertedBack == pc = "fedback" /\ fn = "convertFromSimple"

\* the round trip recovered the simple rate (where the model holds the value)
RecoversSimpleRate ==
    roundTrip.value.simple # OutOfModel
        => JsEq(roundTrip.value.simple, args.simpleRate)

\* a valid rate and context: all positive
ValidRateContext ==
    /\ Positive(args.simpleRate) /\ Positive(args.timePeriod)
    /\ Positive(Default(args.compoundingFreq, One))

\* C15: rate-converter round trip: for any valid simple rate r (percent) and
\* context (t, m), convertFromEffectiveAnnual(convertFromSimple(r, t, m)
\* .effectiveAnnual, m, t).simple recovers r.
C15_ConverterRoundTrip ==
    (ConvertedBack /\ ValidRateContext) => RecoversSimpleRate

\* r = 400 over t = 2 years: effectiveAnnual is 200 and the way back gives 400
C15_Witness ==
    /\ ConvertedBack /\ ValidRateContext
    /\ args.simpleRate = Int2Num(400) /\ args.timePeriod = Int2Num(2)
    /\ result.value.effectiveAnnual = Int2Num(200)
    /\ roundTrip.value.simple = Int2Num(400)

----------------------------------------------------------------------------
(* Properties of solveProblem64 *)

ScenarioReturned ==
    pc = "returned" /\ fn = "solveProblem64" /\ result.error = "" /\ InModel(result)

\* the sum over m = 1..months of
\* (1 + inflationRate/100)^(ceil(m/12) - 1) * (1 + effMonthly)^(investmentYears*12 - m)
RECURSIVE AnnuityFactorSum(_, _, _, _)
AnnuityFactorSum(months, investmentYears, inflationRate, effMonthly) ==
    IF months = 0 THEN Zero
    ELSE Add(AnnuityFactorSum(months - 1, investmentYears, inflationRate,
                              effMonthly),
             Mul(ScenarioPow(Add(One, Div(inflationRate, Hundred)),
                             Int2Num((months + 11) \div 12 - 1)),
                 ScenarioPow(Add(One, effMonthly),
                             Int2Num(LoopCount(Mul(investmentYears, Twelve))
                                     - months))))

\* the returned futureValueInitial and firstPayment, recomputed from the
\* arguments and the returned fields of the earlier stages
FirstPaymentFormula ==
    \E investmentYears \in {Default(args.investmentYears, Int2Num(40))},
       inflationRate \in {Default(args.inflationRate, Int2Num(8))},
       initialInvestment \in {Default(args.initialInvestment, Int2Num(10000))},
       effAnnual \in {Div(result.value.effectiveAnnualRate, Hundred)},
       effMonthly \in {Div(result.value.monthlyEffectiveRate, Hundred)} :
        /\ result.value.futureValueInitial =
               Mul(initialInvestment,
                   ScenarioPow(Add(One, effAnnual), investmentYears))
        /\ result.value.firstPayment =
               Div(Sub(result.value.targetFund, result.value.futureValueInitial),
                   AnnuityFactorSum(LoopCount(Mul(investmentYears, Twelve)),
                                    investmentYears, inflationRate, effMonthly))

\* C14: solveProblem64 returns firstPayment == (targetFund -
\* futureValueInitial) / annuityFactor, where annuityFactor is the sum over
\* the contribution months m = 1..investmentYears*12 of
\* (1+inflationRate/100)^(ceil(m/12)-1) * (1+effMonthly)^(investmentYears*12 - m),
\* and futureValueInitial == initialInvestment*(1+effAnnual)^investmentYears.
C14_FirstPaymentFormula == ScenarioReturned => FirstPaymentFormula

\* two years of contributions at 1200% nominal and 100% inflation: the
\* second year's terms carry the inflation factor 2
C14_Witness ==
    /\ ScenarioReturned
    /\ args.investmentYears = Int2Num(2) /\ args.inflationRate = Hundred
    /\ args.nominalRate = Int2Num(1200)
    /\ args.firstWithdrawalValue = Int2Num(50)
    /\ result.value.monthlyEffectiveRate = Hundred
    /\ IsFinite(result.value.firstPayment) /\ ~IsZero(result.value.firstPayment)

----------------------------------------------------------------------------
(* Properties of the calculator pages *)

\* the field holds a value (its text is not empty)
Supplied(field) == field # <<>>

NumSuppliedFields ==
    Cardinality({f \in {"principal", "rate", "time", "futureValue"} :
                    Supplied(args[f])})

InterestPageCalculated ==
    pc = "returned" /\ fn \in {"simplePage", "compoundPage"}

\* C18: the calling convention between the simple/compound-interest pages
\* and the solvers distinguishes a supplied 0 from an unset value: with
\* three fields holding a value (0 included) a case matches and no missing
\* parameter is reported; principal and time entered with rate 0 yield
\* futureValue == principal; with fewer than three fields holding a value
\* the missing parameter is reported.
C18_ZeroDistinguishedFromUnset ==
    InterestPageCalculated =>
        /\ NumSuppliedFields >= 3 => error = ""
        /\ NumSuppliedFields < 3 => error # ""
        /\ (/\ Supplied(args.principal) /\ Supplied(args.time)
            /\ ParseFloat(args.rate) = Zero /\ ~Supplied(args.futureValue))
               => /\ error = ""
                  /\ JsEq(result.value.futureValue, ParseFloat(args.principal))

\* an empty field is reported as absent: with fewer than three fields
\* holding a value the page shows the error
C18_EmptyFieldsReported ==
    (InterestPageCalculated /\ NumSuppliedFields < 3) => error # ""

PageCalculated == pc = "returned" /\ fn \in Pages

\* the solver call of the last handleCalculate threw
SolverFailed == calculation # NoCall /\ calculation.error # ""
\* the solver call of the last handleCalculate returned a record
SolverSucceeded == calculation.error = ""

\* C20: in the simple-interest, compound-interest and annuity pages, whenever
\* the solver fails during handleCalculate the failure is caught inside the
\* handler, the page's error message becomes non-empty, and no exception
\* escapes; after any successful handleCalculate the error message is empty.
C20_PagesCatchFailures ==
    PageCalculated =>
        /\ ~escaped
        /\ SolverFailed => error # ""
        /\ SolverSucceeded => error = "" /\ result = calculation

\* the annuity page with a rate and periods but no amount: the solver throws,
\* the handler shows its message and the page keeps its empty result
C20_Witness ==
    /\ PageCalculated /\ fn = "annuityPage"
    /\ SolverFailed
    /\ calculation.error = InsufficientAnnuityParameters
    /\ error = SufficientParametersMessage
    /\ ~escaped /\ result = NoCall

----------------------------------------------------------------------------
(* Properties of the amortization schedule *)

\* every entry's remainingBalance is a number >= 0
BalancesNeverNegative ==
    \A i \in DOMAIN amortizationTable :
        Le(Zero, amortizationTable[i].remainingBalance)

\* C21: in every entry of the schedule produced by generateAmortizationTable,
\* for any loanAmount, annualRate, term and monthlyPayment (the payment
\* calculateLoan returns for a zero rate included), remainingBalance is a
\* number >= 0.
C21_BalanceNeverNegative ==
    (LoanReturned /\ Len(amortizationTable) > 0) => BalancesNeverNegative

\* the same, for loans at a rate other than 0
C21_BalanceNeverNegativeNonZeroRate ==
    (LoanReturned /\ Len(amortizationTable) > 0 /\ args.interestRate # Zero)
        => BalancesNeverNegative

----------------------------------------------------------------------------
(* Properties of solveProblem64: the withdrawals *)

\* the withdrawal of month m: firstWithdrawal in months 1..12, multiplied by
\* (1 + inflationRate/100) at months 13, 25, 37, ...
WithdrawalAmount(m, firstWithdrawal, inflationRate) ==
    Mul(firstWithdrawal,
        ScenarioPow(Add(One, Div(inflationRate, Hundred)),
                    Int2Num((m + 11) \div 12 - 1)))

\* the sum, in ascending order of m = 1..months, of the withdrawal of month m
\* discounted by (1 + effMonthly)^m
RECURSIVE WithdrawalSum(_, _, _, _)
WithdrawalSum(months, firstWithdrawal, inflationRate, effMonthly) ==
    IF months = 0 THEN Zero
    ELSE Add(WithdrawalSum(months - 1, firstWithdrawal, inflationRate,
                           effMonthly),
             Div(WithdrawalAmount(months, firstWithdrawal, inflationRate),
                 ScenarioPow(Add(One, effMonthly), Int2Num(months))))

\* the returned firstWithdrawal and targetFund, recomputed from the arguments
\* and the returned monthly rate
TargetFundFormula ==
    \E investmentYears \in {Default(args.investmentYears, Int2Num(40))},
       withdrawalYears \in {Default(args.withdrawalYears, Int2Num(20))},
       inflationRate \in {Default(args.inflationRate, Int2Num(8))},
       firstWithdrawalValue \in {Default(args.firstWithdrawalValue, Int2Num(5000))},
       effMonthly \in {Div(result.value.monthlyEffectiveRate, Hundred)} :
        /\ result.value.firstWithdrawal =
               Mul(firstWithdrawalValue,
                   ScenarioPow(Add(One, Div(inflationRate, Hundred)),
                               investmentYears))
        /\ result.value.targetFund =
               WithdrawalSum(LoopCount(Mul(withdrawalYears, Twelve)),
                             result.value.firstWithdrawal, inflationRate,
                             effMonthly)

\* C22: in solveProblem64, targetFund equals the sum over the withdrawal
\* months m = 1..withdrawalYears*12 (ascending) of
\* firstWithdrawal*(1+inflationRate/100)^(ceil(m/12)-1) / (1+effMonthly)^m,
\* with firstWithdrawal == firstWithdrawalValue*(1+inflationRate/100)^investmentYears:
\* the withdrawal is constant within each block of 12 months and is
\* multiplied by (1+inflationRate/100) exactly at months 13, 25, 37, ...
C22_TargetFundFormula == ScenarioReturned => TargetFundFormula

\* two years of withdrawals at 100% inflation: 6 in the first year's months,
\* 12 from month 13 on
C22_Witness ==
    /\ ScenarioReturned
    /\ args.withdrawalYears = Int2Num(2) /\ args.inflationRate = Hundred
    /\ args.nominalRate = Int2Num(1200)
    /\ args.firstWithdrawalValue = Int2Num(3) /\ args.investmentYears = One
    /\ result.value.firstWithdrawal = Int2Num(6)
    /\ WithdrawalAmount(12, result.value.firstWithdrawal, Hundred) = Int2Num(6)
    /\ WithdrawalAmount(13, result.value.firstWithdrawal, Hundred) = Int2Num(12)
    /\ IsFinite(result.value.targetFund) /\ ~IsZero(result.value.targetFund)

----------------------------------------------------------------------------
(* Properties of solveProblem64: the sizes of the two summations *)

\* solveProblem64 was called with no argument: every parameter takes its default
DefaultsReturned ==
    /\ pc = "returned" /\ fn = "solveProblem64"
    /\ \A a \in DOMAIN args : args[a] = undefined

\* C23: with the default arguments of solveProblem64, the step-4 summation
\* (present value of the withdrawals, withdrawalYears*12 terms) has 480 terms
\* and the step-6 summation (annuity factor of the contributions,
\* investmentYears*12 terms) has 240 terms.
C23_SummationTerms ==
    DefaultsReturned =>
        iterations.withdrawals = 480 /\ iterations.contributions = 240

\* with the defaults (investmentYears = 40, withdrawalYears = 20) the step-4
\* summation has 240 terms and the step-6 summation has 480 terms
C23_SummationTermsByDefaults ==
    DefaultsReturned =>
        iterations.withdrawals = 240 /\ iterations.contributions = 480

C23_Witness ==
    /\ DefaultsReturned
    /\ iterations = [withdrawals |-> 240, contributions |-> 480]

----------------------------------------------------------------------------
(* Properties of the loan page *)

LoanFieldNotANumber ==
    IsNaN(args.loanAmount) \/ IsNaN(args.interestRate) \/ IsNaN(args.termYears)

\* a step of LoanCalculator.handleCalculate
LoanCalculateStep == pc = "ready" /\ fn = "loan" /\ pc' = "returned"

\* C24: LoanCalculator.handleCalculate calls calculateLoan only when
\* loanAmount, interestRate and termYears all parse to numbers; if any of
\* them is NaN the handler returns with result and amortizationTable
\* unchanged; otherwise it sets, in the same step, result and a schedule
\* built from that result's monthlyPayment.
C24_LoanHandlerFrame ==
    [][LoanCalculateStep =>
          IF LoanFieldNotANumber
          THEN /\ calculation' = NoCall
               /\ UNCHANGED <<result, amortizationTable>>
          ELSE /\ calculation' = calculateLoan(args.loanAmount,
                                               args.interestRate, args.termYears)
               /\ result' = calculation'
               /\ amortizationTable' =
                      generateAmortizationTable(args.loanAmount,
                          args.interestRate, args.termYears,
                          result'.value.monthlyPayment)]_vars

\* a field was emptied after a loan was computed: the handler returned at
\* its guard and the page still shows the earlier loan and its schedule
C24_Witness ==
    /\ pc = "returned" /\ fn = "loan"
    /\ LoanFieldNotANumber /\ calculation = NoCall
    /\ result # NoCall /\ result.value.loanAmount = Int2Num(1200)
    /\ Len(amortizationTable) = 3

----------------------------------------------------------------------------
(* Properties of the annuity solver: the priority of the value fields *)

\* (1 + r)^n - 1 and 1 - (1 + r)^(-n) for the call's rate and periods
AnnuityGrowth == Sub(Pow(Add(One, Div(args.rate, Hundred)), args.periods), One)
AnnuityDiscount ==
    Sub(One, Pow(Add(One, Div(args.rate, Hundred)), Neg(args.periods)))

\* the payment case was selected: payment is echoed, presentValue and
\* futureValue are derived from it
PaymentCaseSelected ==
    /\ result.error = ""
    /\ result.value.payment = args.payment
    /\ result.value.presentValue =
           Div(Mul(args.payment, AnnuityDiscount), Div(args.rate, Hundred))
    /\ result.value.futureValue =
           Mul(args.payment, Div(AnnuityGrowth, Div(args.rate, Hundred)))

\* the presentValue case was selected: presentValue is echoed, payment is
\* derived from it
PresentValueCaseSelected ==
    /\ result.error = ""
    /\ result.value.presentValue = args.presentValue
    /\ result.value.payment =
           Div(Mul(args.presentValue, Div(args.rate, Hundred)), AnnuityDiscount)

\* the futureValue case was selected: futureValue is echoed, payment is
\* derived from it
FutureValueCaseSelected ==
    /\ result.error = ""
    /\ result.value.futureValue = args.futureValue
    /\ result.value.payment =
           Div(Mul(args.futureValue, Div(args.rate, Hundred)), AnnuityGrowth)

\* C28: calculateOrdinaryAnnuity resolves multiple supplied value fields by
\* the fixed priority payment, presentValue, futureValue: with rate and
\* periods present, a present payment selects the payment case and a
\* supplied presentValue/futureValue is replaced by the derived value;
\* presentValue is used only when payment is absent, futureValue only when
\* payment and presentValue are absent.  The record echoes the given field
\* of the selected case unchanged.
C28_AnnuityPriority ==
    (AnnuityReturned /\ Present(args.rate) /\ Present(args.periods)) =>
        /\ Present(args.payment) => PaymentCaseSelected
        /\ (~Present(args.payment) /\ Present(args.presentValue))
              => PresentValueCaseSelected
        /\ (/\ ~Present(args.payment) /\ ~Present(args.presentValue)
            /\ Present(args.futureValue)) => FutureValueCaseSelected

\* payment 1000, presentValue 1000 and futureValue 3000 at 10% over 2
\* periods: the record has the derived presentValue and futureValue 2100
C28_Witness ==
    /\ AnnuityReturned /\ PaymentCaseSelected
    /\ args.payment = Int2Num(1000) /\ args.presentValue = Int2Num(1000)
    /\ args.futureValue = Int2Num(3000)
    /\ args.rate = Int2Num(10) /\ args.periods = Int2Num(2)
    /\ result.value.futureValue = Int2Num(2100)
    /\ result.value.presentValue # args.presentValue

----------------------------------------------------------------------------
(* C29: what a failed handleCalculate and clearForm leave of the page *)

\* a step of handleCalculate of one of the three pages
PageCalculateStep == fn \in Pages /\ pc = "ready" /\ pc' = "returned"

\* C29: in the simple-interest, the compound-interest and the annuity page a
\* handleCalculate that ends with an error message leaves the stored result
\* as it was; a stored result is reset to null by clearForm only; and
\* clearForm leaves the error message empty.
C29_FailureKeepsResult ==
    [][/\ (PageCalculateStep /\ error' # "") => result' = result
       /\ (fn \in Pages /\ result # NoCall /\ result' = NoCall) => ClearForm
       /\ ClearForm => result' = NoCall /\ error' = ""]_vars

\* a failure after a success: the page shows an error message together with
\* the result of the earlier calculation
C29_Witness ==
    /\ fn \in Pages /\ pc = "returned"
    /\ calculations = 2
    /\ error # "" /\ calculation # result
    /\ result # NoCall

----------------------------------------------------------------------------
(* C26: the selected calculation type and the solver's arguments *)

\* the field holds a number other than 0
NonZeroField(field) == Supplied(field) /\ Truthy(ParseFloat(field))

\* the solver's outcome for the fields' texts, whatever type is selected
OutcomeOfFields ==
    IF fn = "simplePage"
    THEN calculateSimpleInterest(OptionalField(args.principal), OptionalField(args.rate),
                                 OptionalField(args.time), OptionalField(args.futureValue))
    ELSE calculateCompoundInterest(OptionalField(args.principal), OptionalField(args.rate),
                                   OptionalField(args.time), ParseInt(args.compounding),
                                   OptionalField(args.futureValue))

\* the outcome of the solver's futureValue case for principal, rate and time
FutureValueCaseOfFields ==
    IF fn = "simplePage"
    THEN SimpleFromPrincipalRateTime(ParseFloat(args.principal), ParseFloat(args.rate),
                                     ParseFloat(args.time))
    ELSE CompoundFromPrincipalRateTime(ParseFloat(args.principal), ParseFloat(args.rate),
                                       ParseFloat(args.time), ParseInt(args.compounding))

\* C26: in the simple- and the compound-interest page the outcome of
\* handleCalculate depends on the fields' texts only, never on the selected
\* calculationType: every field's text is passed, also that of a field the
\* selected type disables or hides; with principal, rate and time holding
\* numbers other than 0 the futureValue case is taken, whatever type is
\* selected and whatever the futureValue field holds.
C26_TypeNotPassed ==
    InterestPageCalculated =>
        /\ calculation = OutcomeOfFields
        /\ (NonZeroField(args.principal) /\ NonZeroField(args.rate)
                /\ NonZeroField(args.time)) =>
               calculation = FutureValueCaseOfFields /\ result = calculation

\* another type than Future Value is selected and a futureValue is entered,
\* and the page shows the future value computed from principal, rate, time
C26_Witness ==
    /\ InterestPageCalculated
    /\ args.calculationType \in {"present-value", "interest-rate", "time-period"}
    /\ NonZeroField(args.principal) /\ NonZeroField(args.rate) /\ NonZeroField(args.time)
    /\ NonZeroField(args.futureValue)
    /\ result = FutureValueCaseOfFields
    /\ result.value.futureValue # ParseFloat(args.futureValue)

----------------------------------------------------------------------------
(* The compound-interest page's chart: compound_interest_calc_Version2.js 57-74 *)

\* Math.round(x): the integer nearest to x, a half rounds up
MathRoundValues(x) ==
    IF x = OutOfModel THEN OutOfModel
    ELSE IF IsNaN(x) THEN NaN
    ELSE IF IsInf(x) THEN x
    ELSE Int2Num((2 * x.n + x.d) \div (2 * x.d))

MathRound(x) == Strict1(MathRoundValues, x)

\* the last year of the loop `for (year = 0; year <= years; year++)`, -1 when
\* the body never runs (years is NaN or negative)
LastChartYear(years) ==
    IF IsFinite(years) /\ years.n >= 0 THEN years.n ELSE -1

\* the loop never ends: year <= Infinity holds for every year
ChartDiverges(r) == r # NoCall /\ MathCeil(r.value.time) = Infinity

\* a loop body that compounds once a year, whatever the frequency
ChartPoint_annual(r, year) ==
    [year |-> Int2Num(year),
     value |-> MathRound(Mul(r.value.principal,
                             Pow(Add(One, Div(Div(r.value.rate, Hundred),
                                              r.value.compoundingFreq)),
                                 Int2Num(year))))]

\* the loop body, lines 66-70: yearlyRate is result.rate / 100, freq is
\* result.compoundingFreq
ChartPoint(r, year) ==
    [year |-> Int2Num(year),
     value |-> MathRound(Mul(r.value.principal,
                             Pow(Add(One, Div(Div(r.value.rate, Hundred),
                                              r.value.compoundingFreq)),
                                 Mul(r.value.compoundingFreq, Int2Num(year)))))]

\* generateChartData: the points pushed, in order
generateChartData(r) ==
    IF r = NoCall THEN <<>>
    ELSE [i \in 1..(LastChartYear(MathCeil(r.value.time)) + 1) |-> ChartPoint(r, i - 1)]

----------------------------------------------------------------------------
(* C25: the chart and the solver's formula *)

\* the compound-interest page displays a result whose chart is in the model
ChartDisplayed ==
    /\ fn = "compoundPage" /\ result # NoCall
    /\ ~ChartDiverges(result)
    /\ \A i \in DOMAIN generateChartData(result) :
           generateChartData(result)[i].value # OutOfModel

\* principal * (1 + rate/100/freq)^(freq * y), rounded
RoundedValueAtYear(y) ==
    MathRound(Mul(result.value.principal,
                  GrowthFactor(result.value.rate, Int2Num(y),
                               result.value.compoundingFreq)))

\* the chart has one point per year 0..ceil(result.time), each holding the
\* rounded value of the compounding formula at its year, the first of them
\* the rounded principal
ChartFollowsFormula ==
    /\ Len(generateChartData(result)) = MathCeil(result.value.time).n + 1
    /\ \A i \in DOMAIN generateChartData(result) :
           /\ generateChartData(result)[i].year = Int2Num(i - 1)
           /\ generateChartData(result)[i].value = RoundedValueAtYear(i - 1)
    /\ generateChartData(result)[1].value = MathRound(result.value.principal)

LastChartPoint == generateChartData(result)[Len(generateChartData(result))]

----------------------------------------------------------------------------
(* C30: the dispatch of the rate converter page *)

\* a step of InterestRateConverter.handleCalculate
ConverterCalculateStep == fn = "converterPage" /\ pc = "ready" /\ pc' = "returned"

\* C30: InterestRateConverter.handleCalculate leaves the stored conversions
\* unchanged when the rate or the time is not a number; otherwise it stores
\* convertFromSimple(rate, time, toFreq) for the source type 'simple',
\* convertFromEffectiveAnnual(rate, toFreq, time) for 'effective-annual',
\* convertFromNominal(rate, fromFreq, toFreq) for 'nominal', and for
\* 'effective-periodic' and 'force' convertFromSimple(rate, time, toFreq), as
\* if the input were a simple rate.
C30_ConverterDispatch ==
    [][ConverterCalculateStep =>
         LET rate == ParseFloat(args.inputRate)
             time == ParseFloat(args.timePeriod)
             fromFreq == ParseInt(args.fromCompounding)
             toFreq == ParseInt(args.toCompounding)
         IN  IF IsNaN(rate) \/ IsNaN(time)
             THEN conversions' = conversions
             ELSE /\ args.fromRateType = "simple" =>
                         conversions' = convertFromSimple(rate, time, toFreq)
                  /\ args.fromRateType = "effective-annual" =>
                         conversions' = convertFromEffectiveAnnual(rate, toFreq, time)
                  /\ args.fromRateType = "nominal" =>
                         conversions' = convertFromNominal(rate, fromFreq, toFreq)
                  /\ args.fromRateType \in {"effective-periodic", "force"} =>
                         conversions' = convertFromSimple(rate, time, toFreq)]_vars

\* a periodic rate or a force of interest was converted: the stored
\* conversions show the input as the simple rate, and differ from those of
\* the other two converters
C30_Witness ==
    /\ fn = "converterPage" /\ pc = "returned"
    /\ args.fromRateType \in {"effective-periodic", "force"}
    /\ conversions # NoCall
    /\ conversions.value.simple = ParseFloat(args.inputRate)
    /\ conversions.value.effectiveAnnual # OutOfModel
    /\ conversions # convertFromNominal(ParseFloat(args.inputRate),
                                       ParseInt(args.fromCompounding),
                                       ParseInt(args.toCompounding))
    /\ conversions # convertFromEffectiveAnnual(ParseFloat(args.inputRate),
                                               ParseInt(args.toCompounding),
                                               ParseFloat(args.timePeriod))

====
